---- MODULE Spec2Model ----
(***************************************************************************)
(* Model of the per-tick client update engine of valence:                  *)
(*   src/src/client.rs       Client, Client::update, Client::update_fallible*)
(*   src/src/player_list.rs  PlayerLists, PlayerList, PlayerListEntry       *)
(* The collaborators whose code is not part of the sources (packet sink,   *)
(* chunk geometry, worlds, chunks, cells, entities, inventories, the event *)
(* layer and the server tick loop) are modelled from spec.md.              *)
(***************************************************************************)
EXTENDS Integers, Sequences, FiniteSets, TLC

VARIABLES
    client,        \* the Client record (client.rs 192-259)
    clients,       \* Clients: the store of the server's other clients
    worlds,        \* Worlds: WorldId -> world (exists, deleted, dimension, chunks)
    entities,      \* Entities: EntityId -> entity
    player_lists,  \* PlayerLists: PlayerListId -> PlayerList
    inventories,   \* Inventories: InventoryId -> inventory
    tick,          \* SharedServer::current_tick
    wire,          \* observation: what the last Client::update did to the sink
    hist           \* observation: bookkeeping of the host phase of the tick

vars == <<client, clients, worlds, entities, player_lists, inventories, tick, wire, hist>>

(***************************************************************************)
(* Bounds of the model.                                                    *)
(***************************************************************************)
\* chunk columns 0..MaxChunkX of the row z = 0 hold cells
MaxChunkX == 4
\* packets the host may queue before an update
MaxQueued == 2
\* the sink operation (0-based) of update_fallible that may fail
MaxFailAt == 2
\* Config::tick_rate
TickRate == 1
\* ticks explored by the view, inventory and player-list specifications
MaxShortTick == 3
\* the last tick of a connection in which the host acts on the client
MaxHostTick == 1
\* actions the host and the client take in a run of the view, inventory and
\* player-list specifications
MaxActs == 3
\* slots of the client store
MaxClients == 2

(***************************************************************************)
(* Program constants.                                                      *)
(***************************************************************************)
KeepAliveFactor == 10
MinViewDistance == 2
MaxViewDistance == 32
U8Max == 255
SlotCount == 45
WindowIdCycle == 100
ChunkWidth == 16

KeepAlivePeriod == TickRate * KeepAliveFactor
MaxTick == 2 * KeepAlivePeriod + 1

\* Wrapping<i32>: inv_state_id
I32Max == 2147483647
\* x + 1 in 32 bits, two's complement.  A u32 counter is kept as the i32 with
\* the same bits (the value `as i32` puts into a packet), so its wrapping_add(1)
\* is the same operation.
WrapInc(x) ==
    IF x = I32Max THEN (-I32Max) - 1 ELSE x + 1

\* u64 bit mask modified_slots, as the set of its set bits
U64Bits == 0 .. 63

(***************************************************************************)
(* Identifiers.  0 is the NULL key of each handle table.                   *)
(***************************************************************************)
NULL == 0
WorldIds == {1, 2}
EntityIds == {1, 2}
PlayerListIds == {1, 2}
InventoryIds == {1}
Uuids == {1, 2}
\* Option<PlayerListId>::None
NoList == 0

(***************************************************************************)
(* Sequences helpers.                                                      *)
(***************************************************************************)
RECURSIVE SortedSeq(_)
\* the elements of a finite set of integers, ascending
SortedSeq(S) ==
    IF S = {} THEN <<>>
    ELSE LET m == CHOOSE x \in S : \A y \in S : x <= y
         IN  <<m>> \o SortedSeq(S \ {m})

RECURSIVE SeqOfN(_, _)
\* n copies of x
SeqOfN(x, n) ==
    IF n = 0 THEN <<>> ELSE <<x>> \o SeqOfN(x, n - 1)

\* the indexes of s whose element satisfies Test
Indexes(s, Test(_)) ==
    {i \in 1 .. Len(s) : Test(s[i])}

(***************************************************************************)
(* Chunk-pos view geometry (spec.md 3, ChunkPos).                          *)
(***************************************************************************)
\* ChunkPos::at(x, z)
ChunkPosAt(p) ==
    <<p[1] \div ChunkWidth, p[2] \div ChunkWidth>>

\* ChunkPos::is_in_view(other, d): squared chunk distance <= d^2
IsInView(a, b, d) ==
    (a[1] - b[1]) * (a[1] - b[1]) + (a[2] - b[2]) * (a[2] - b[2]) <= d * d

\* the chunk positions for which chunk_and_cell returns a cell
Grid ==
    {<<x, 0>> : x \in 0 .. MaxChunkX}

\* ChunkPos::try_for_each_in_view: the positions of the view disc in
\* iteration order (rows of z, then x); positions without a cell are skipped
\* by the callers, so only those of Grid are listed.
ViewSeq(center, d) ==
    LET xs == {p[1] : p \in {q \in Grid : IsInView(center, q, d)}}
    IN  [i \in 1 .. Cardinality(xs) |-> <<SortedSeq(xs)[i], 0>>]

ViewSet(center, d) ==
    {p \in Grid : IsInView(center, p, d)}

(***************************************************************************)
(* Packets.  A packet is its name and a tuple of the fields the model      *)
(* keeps.  The sink (PlayPacketSender) is a sequence of packets.           *)
(***************************************************************************)
Pkt(t, a) ==
    [t |-> t, a |-> a]

\* the packets of buf named t
Count(buf, t) ==
    Cardinality({i \in 1 .. Len(buf) : buf[i].t = t})

Has(buf, t) ==
    \E i \in 1 .. Len(buf) : buf[i].t = t

(***************************************************************************)
(* Worlds, chunks, cells, entities, inventories: the read interface the    *)
(* update consumes (spec.md 6).                                            *)
(***************************************************************************)
\* Worlds::get(id).is_some()
WorldsGet(ws, id) ==
    id \in WorldIds /\ ws[id].exists

\* Entities::get(id).is_some()
EntitiesGet(ents, id) ==
    id \in EntityIds /\ ents[id].exists

\* Entities::get_with_uuid(uuid): the id, or NULL
GetWithUuid(ents, uuid) ==
    LET ids == {e \in EntityIds : ents[e].exists /\ ents[e].uuid = uuid}
    IN  IF ids = {} THEN NULL ELSE CHOOSE e \in ids : \A f \in ids : e <= f

\* Inventories::get(id).is_some()
InventoriesGet(invs, id) ==
    id \in InventoryIds /\ invs[id].exists

\* Cell::entities(): the entities residing in the cell
CellEntities(ents, w, pos) ==
    {e \in EntityIds :
        /\ ents[e].exists /\ ~ents[e].deleted
        /\ ents[e].world = w /\ ChunkPosAt(ents[e].position) = pos}

\* Option<ChunkPos>
Some(pos) == [some |-> TRUE, pos |-> pos]
None == [some |-> FALSE, pos |-> <<0, 0>>]

\* Cell::incoming(): (id, source cell) of the entities that entered the cell
CellIncoming(ents, w, pos) ==
    LET ids == {e \in CellEntities(ents, w, pos) :
                    \/ ents[e].created
                    \/ ents[e].old_world # w
                    \/ ChunkPosAt(ents[e].old_position) # pos}
        src(e) == IF ents[e].created \/ ents[e].old_world # w
                  THEN None ELSE Some(ChunkPosAt(ents[e].old_position))
    IN  [i \in 1 .. Cardinality(ids) |->
            [id |-> SortedSeq(ids)[i], pos |-> src(SortedSeq(ids)[i])]]

\* Cell::outgoing(): (id, destination cell) of the entities that left the cell
CellOutgoing(ents, w, pos) ==
    LET ids == {e \in EntityIds :
                    /\ ents[e].exists /\ ~ents[e].created
                    /\ ents[e].old_world = w
                    /\ ChunkPosAt(ents[e].old_position) = pos
                    /\ \/ ents[e].deleted
                       \/ ents[e].world # w
                       \/ ChunkPosAt(ents[e].position) # pos}
        dst(e) == IF ents[e].deleted \/ ents[e].world # w
                  THEN None ELSE Some(ChunkPosAt(ents[e].position))
    IN  [i \in 1 .. Cardinality(ids) |->
            [id |-> SortedSeq(ids)[i], pos |-> dst(SortedSeq(ids)[i])]]

RECURSIVE UpdateBytes(_, _)
\* the update bytes of the entities ids (a sorted sequence): every byte is
\* tagged with the entity it refers to
UpdateBytes(ents, ids) ==
    IF ids = <<>> THEN <<>>
    ELSE SeqOfN(Head(ids), ents[Head(ids)].upd) \o UpdateBytes(ents, Tail(ids))

\* Cell::cached_update_packets(): the cell's entity-update blob
CachedUpdatePackets(ents, w, pos) ==
    UpdateBytes(ents, SortedSeq(CellEntities(ents, w, pos)))

\* Entity::self_update_range: the span of the entity's bytes in the blob of
\* the cell it resides in, as (start, end) with start inclusive, end exclusive
SelfUpdateRange(ents, e) ==
    LET before == {f \in CellEntities(ents, ents[e].world,
                                      ChunkPosAt(ents[e].position)) : f < e}
        start  == Len(UpdateBytes(ents, SortedSeq(before)))
    IN  IF ents[e].deleted THEN <<0, 0>> ELSE <<start, start + ents[e].upd>>

(***************************************************************************)
(* Player lists (player_list.rs).                                          *)
(***************************************************************************)
\* Text: 0 is the empty text
EmptyText == 0

NoEntry ==
    [present |-> FALSE, username |-> 0, textures |-> 0, game_mode |-> 0,
     ping |-> 0, display_name |-> 0, created_this_tick |-> FALSE,
     modified_game_mode |-> FALSE, modified_ping |-> FALSE,
     modified_display_name |-> FALSE]

\* PlayerLists::insert: a new, empty player list
NewPlayerList ==
    [exists |-> TRUE, entries |-> [u \in Uuids |-> NoEntry], removed |-> {},
     header |-> EmptyText, footer |-> EmptyText,
     modified_header_or_footer |-> FALSE, cached_update_packets |-> <<>>]

NoPlayerList ==
    [NewPlayerList EXCEPT !.exists = FALSE]

Keys(pl) ==
    {u \in Uuids : pl.entries[u].present}

\* a PlayerInfoAddPlayer record
AddPlayerRecord(pl, u) ==
    <<u, pl.entries[u].username, pl.entries[u].textures,
      pl.entries[u].game_mode, pl.entries[u].ping, pl.entries[u].display_name>>

\* the records of the uuids us, in ascending order of uuid
RecordsOf(us, Rec(_)) ==
    [i \in 1 .. Cardinality(us) |-> Rec(SortedSeq(us)[i])]

\* PlayerList::write_init_packets
WriteInitPackets(pl) ==
    LET add == RecordsOf(Keys(pl), LAMBDA u : AddPlayerRecord(pl, u))
    IN  (IF add # <<>> THEN <<Pkt("AddPlayer", add)>> ELSE <<>>)
        \o (IF pl.header = EmptyText \/ pl.footer = EmptyText
            THEN <<Pkt("SetTabListHeaderAndFooter", <<pl.header, pl.footer>>)>>
            ELSE <<>>)

\* PlayerList::write_clear_packets
WriteClearPackets(pl) ==
    <<Pkt("RemovePlayer", SortedSeq(Keys(pl)) \o SortedSeq(pl.removed))>>

\* mutant: the update is rebuilt from the list at the time of the client's
\* update instead of taken from the cache
WriteUpdatePackets_Rebuilds(pl) ==
    (IF pl.removed # {} THEN <<Pkt("RemovePlayer", SortedSeq(pl.removed))>> ELSE <<>>)
       \o (IF {u \in Keys(pl) : pl.entries[u].created_this_tick} # {}
           THEN <<Pkt("AddPlayer",
                      RecordsOf({u \in Keys(pl) : pl.entries[u].created_this_tick},
                                LAMBDA u : AddPlayerRecord(pl, u)))>>
           ELSE <<>>)

\* PlayerList::write_update_packets
WriteUpdatePackets(pl) ==
    pl.cached_update_packets

(***************************************************************************)
(* The client (client.rs).                                                 *)
(***************************************************************************)
Slots == 0 .. SlotCount - 1

\* Option<PlayPacketSender>
NoSend == [some |-> FALSE, buf |-> <<>>]
SomeSend(buf) == [some |-> TRUE, buf |-> buf]

\* Client::new
NewClient ==
    [send |-> SomeSend(<<>>),
     loaded_chunks |-> {},
     self_entity |-> NULL,
     uuid |-> 1,
     world |-> NULL,
     old_world |-> NULL,
     player_list |-> NoList,
     old_player_list |-> NoList,
     position |-> <<0, 0>>,
     old_position |-> <<0, 0>>,
     view_distance |-> 2,
     old_view_distance |-> 2,
     teleport_id_counter |-> 0,
     pending_teleports |-> 0,
     last_keepalive_id |-> 0,
     game_mode |-> 0,
     block_change_sequence |-> 0,
     player_data_dirty |-> FALSE,
     slots |-> [i \in Slots |-> 0],
     modified_slots |-> {},
     inv_state_id |-> 0,
     cursor_item |-> 0,
     open_inventory |-> NULL,
     window_id |-> 0,
     created_this_tick |-> TRUE,
     respawn |-> FALSE,
     got_keepalive |-> TRUE,
     cursor_item_modified |-> FALSE,
     open_inventory_modified |-> FALSE,
     \* observation: a debug assertion on loaded_chunks would have failed
     assert_failed |-> FALSE]

\* Client::is_disconnected
IsDisconnected(c) ==
    ~c.send.some

\* queue_packet that keeps the sink when the packet does not encode
QueuePacket_KeepsSink(c, pkt, encodes) ==
    IF c.send.some /\ encodes
    THEN [c EXCEPT !.send.buf = Append(@, pkt)]
    ELSE c

\* Client::queue_packet; encodes tells whether the packet encodes
QueuePacket(c, pkt, encodes) ==
    IF c.send.some
    THEN IF encodes
         THEN [c EXCEPT !.send.buf = Append(@, pkt)]
         ELSE [c EXCEPT !.send = NoSend]
    ELSE c

\* Client::disconnect_abrupt
DisconnectAbrupt(c) ==
    [c EXCEPT !.send = NoSend]

\* Client::disconnect
Disconnect(c, encodes) ==
    DisconnectAbrupt(QueuePacket(c, Pkt("DisconnectPlay", <<1>>), encodes))

\* Client::respawn
RespawnTo(c, w) ==
    [c EXCEPT !.world = w, !.respawn = TRUE]

\* Client::teleport
\* teleport that does not advance the teleport id counter
Teleport_ReusesId(c, pos, encodes) ==
    LET c1 == [c EXCEPT !.position = pos]
        c2 == QueuePacket(c1, Pkt("SynchronizePlayerPosition",
                                  <<c.teleport_id_counter>>), encodes)
    IN  [c2 EXCEPT !.pending_teleports = WrapInc(@)]

\* Client::teleport
Teleport(c, pos, encodes) ==
    LET c1 == [c EXCEPT !.position = pos]
        c2 == QueuePacket(c1, Pkt("SynchronizePlayerPosition",
                                  <<c.teleport_id_counter>>), encodes)
    IN  [c2 EXCEPT !.pending_teleports = WrapInc(@),
                   !.teleport_id_counter = WrapInc(@)]

\* Client::send_message
SendMessage(c, encodes) ==
    QueuePacket(c, Pkt("SystemChatMessage", <<>>), encodes)

\* set_view_distance that stores the distance as given
SetViewDistance_Unclamped(c, dist) ==
    [c EXCEPT !.view_distance = dist]

\* Client::set_view_distance: clamped to 2..=32
SetViewDistance(c, dist) ==
    [c EXCEPT !.view_distance =
        IF dist < MinViewDistance THEN MinViewDistance
        ELSE IF dist > MaxViewDistance THEN MaxViewDistance ELSE dist]

\* Client::set_skin_parts with parts other than the displayed ones: the
\* tracked player data has a change to send
SetSkinParts(c) ==
    [c EXCEPT !.player_data_dirty = TRUE]

\* Client::set_player_list
SetPlayerList(c, id) ==
    [c EXCEPT !.player_list = id]

\* replace_slot that does not mark the slot as modified
ReplaceSlot_NoMark(c, idx, item) ==
    [c EXCEPT !.slots[idx] = item]

\* Client::replace_slot
ReplaceSlot(c, idx, item) ==
    [c EXCEPT !.modified_slots = IF item # c.slots[idx] THEN @ \cup {idx} ELSE @,
              !.slots[idx] = item]

RECURSIVE ReplaceSlots(_, _, _)
\* Client::replace_slot called for each index of idxs in turn
ReplaceSlots(c, idxs, item) ==
    IF idxs = <<>> THEN c
    ELSE ReplaceSlots(ReplaceSlot(c, Head(idxs), item), Tail(idxs), item)

\* Client::replace_cursor_item: setting the bit is a todo!() of the source,
\* which panics, so the call returns only when the item does not change
ReplaceCursorItemPanics(c, item) ==
    item # c.cursor_item

\* Client::replace_cursor_item when it returns: mem::replace
ReplaceCursorItem(c, item) ==
    [c EXCEPT !.cursor_item = item]

\* the cursor item changes through the event layer, which sets the bit
CursorItemChanged(c, item) ==
    IF item # c.cursor_item
    THEN [c EXCEPT !.cursor_item = item, !.cursor_item_modified = TRUE]
    ELSE c

\* Client::set_open_inventory
SetOpenInventory(c, id) ==
    IF c.open_inventory # id
    THEN [c EXCEPT !.open_inventory_modified = TRUE, !.open_inventory = id]
    ELSE c

\* Client::prepare_c2s_packets; received is the result of try_recv
PrepareC2sPackets(c, received) ==
    IF received THEN c ELSE DisconnectAbrupt(c)

\* Client::next_event on an inbound keepalive response with identifier id:
\* a response that is unexpected or carries the wrong id is an error, and an
\* error drops the sink
NextEventKeepAlive(c, id) ==
    IF ~c.got_keepalive /\ id = c.last_keepalive_id
    THEN [c EXCEPT !.got_keepalive = TRUE]
    ELSE [c EXCEPT !.send = NoSend]

\* Client::next_event on an inbound position packet: the client's position
\* follows it unless a server-initiated teleport is still pending
NextEventMove(c, pos) ==
    IF c.pending_teleports = 0 THEN [c EXCEPT !.position = pos] ELSE c

\* Client::next_event on the client's confirmation of a teleport: one
\* teleport less is pending
NextEventConfirmTeleport(c) ==
    IF c.pending_teleports # 0
    THEN [c EXCEPT !.pending_teleports = @ - 1]
    ELSE c

(***************************************************************************)
(* One run of Client::update_fallible.  The run carries the client, the    *)
(* sink taken out of it, the number of fallible sink operations done so    *)
(* far and the operation that fails (if any); after an error (the `?` and  *)
(* bail! of the code) every later step leaves the run alone.               *)
(***************************************************************************)
NoFailure == [on |-> FALSE, at |-> 0]
FailureAt(k) == [on |-> TRUE, at |-> k]

StartRun(c, fail) ==
    [c |-> c, buf |-> c.send.buf, err |-> FALSE, cause |-> "none", n |-> 0,
     fail |-> fail, unl |-> <<>>]

\* bail!/ensure!
Bail(s, cause) ==
    IF s.err THEN s ELSE [s EXCEPT !.err = TRUE, !.cause = cause]

\* send.append_packet(p)?  and  writer.write_bytes(..)? : one fallible
\* operation appending pkts
EmitAll(s, pkts) ==
    IF s.err THEN s
    ELSE IF s.fail.on /\ s.n = s.fail.at
         THEN [s EXCEPT !.err = TRUE, !.cause = "io", !.n = @ + 1]
         ELSE [s EXCEPT !.buf = @ \o pkts, !.n = @ + 1]

Emit(s, p) ==
    EmitAll(s, <<p>>)

\* send.prepend_packet(p)?
Prepend(s, p) ==
    IF s.err THEN s
    ELSE IF s.fail.on /\ s.n = s.fail.at
         THEN [s EXCEPT !.err = TRUE, !.cause = "io", !.n = @ + 1]
         ELSE [s EXCEPT !.buf = <<p>> \o @, !.n = @ + 1]

\* send.append_bytes(..) and the writes that are unwrapped: no error result
AppendBytes(s, pkts) ==
    IF s.err THEN s ELSE [s EXCEPT !.buf = @ \o pkts]

\* mutant: the ensure!(!world.deleted()) is missing
WorldCheck_IgnoresDeleted(s, env) ==
    IF s.err THEN s
    ELSE IF ~WorldsGet(env.worlds, s.c.world) THEN Bail(s, "world")
    ELSE s

\* client.rs 985-989: the world binding check
WorldCheck(s, env) ==
    IF s.err THEN s
    ELSE IF ~WorldsGet(env.worlds, s.c.world) THEN Bail(s, "world")
    ELSE IF env.worlds[s.c.world].deleted THEN Bail(s, "world")
    ELSE s

LoginPlayPacket(c, env) ==
    Pkt("LoginPlay", <<c.game_mode, env.worlds[c.world].dimension, c.view_distance>>)

RespawnPacket(c, env) ==
    Pkt("Respawn", <<c.game_mode, env.worlds[c.world].dimension>>)

\* mutant: the login packet is appended instead of prepended
Login_Appended(s, env) ==
    LET s1 == [s EXCEPT !.c.respawn = FALSE]
        s2 == Emit(s1, Pkt("LoginPlay", <<s.c.game_mode,
                       env.worlds[s.c.world].dimension, s.c.view_distance>>))
    IN  IF s.c.player_list # NoList
        THEN AppendBytes(s2, WriteInitPackets(env.player_lists[s.c.player_list]))
        ELSE s2

\* the login that leaves the respawn bit as it is
Login_KeepsRespawn(s, env) ==
    LET s2 == Prepend(s, LoginPlayPacket(s.c, env))
    IN  IF s.c.player_list # NoList
        THEN AppendBytes(s2, WriteInitPackets(env.player_lists[s.c.player_list]))
        ELSE s2

\* client.rs 994-1029: initial login
Login(s, env) ==
    LET s1 == [s EXCEPT !.c.respawn = FALSE]
        s2 == Prepend(s1, LoginPlayPacket(s.c, env))
    IN  IF s.c.player_list # NoList
        THEN AppendBytes(s2, WriteInitPackets(env.player_lists[s.c.player_list]))
        ELSE s2

\* the transition that does not clear the old list
PlayerListStep_SkipsClear(s, env) ==
    IF s.err THEN s
    ELSE IF s.c.old_player_list # s.c.player_list
    THEN LET s2 == IF s.c.player_list # NoList
                   THEN AppendBytes(s, WriteInitPackets(
                                           env.player_lists[s.c.player_list]))
                   ELSE s
         IN  [s2 EXCEPT !.c.old_player_list = s.c.player_list]
    ELSE IF s.c.player_list # NoList
    THEN EmitAll(s, WriteUpdatePackets(env.player_lists[s.c.player_list]))
    ELSE s

\* client.rs 1054-1070: the player list transition
PlayerListStep(s, env) ==
    IF s.err THEN s
    ELSE IF s.c.old_player_list # s.c.player_list
    THEN LET s1 == IF s.c.old_player_list # NoList
                   THEN EmitAll(s, WriteClearPackets(
                                       env.player_lists[s.c.old_player_list]))
                   ELSE s
             s2 == IF s.c.player_list # NoList
                   THEN AppendBytes(s1, WriteInitPackets(
                                            env.player_lists[s.c.player_list]))
                   ELSE s1
         IN  IF s2.err THEN s2
             ELSE [s2 EXCEPT !.c.old_player_list = s.c.player_list]
    ELSE IF s.c.player_list # NoList
    THEN EmitAll(s, WriteUpdatePackets(env.player_lists[s.c.player_list]))
    ELSE s

\* client.rs 1031-1052: render distance and respawn of a client that is not new
SteadyState(s, env) ==
    LET s1 == IF s.c.view_distance # s.c.old_view_distance
              THEN Emit(s, Pkt("SetRenderDistance", <<s.c.view_distance>>))
              ELSE s
        s2 == IF s1.err THEN s1
              ELSE IF s1.c.respawn
              THEN Emit([s1 EXCEPT !.c.respawn = FALSE], RespawnPacket(s.c, env))
              ELSE s1
    IN  PlayerListStep(s2, env)

\* client.rs 994-1071
LoginOrSteadyState(s, env) ==
    IF s.err THEN s
    ELSE IF s.c.created_this_tick THEN Login(s, env) ELSE SteadyState(s, env)

\* mutant: a missing response is not an error
KeepAlive_NoTimeout(s, env, id) ==
    IF s.err THEN s
    ELSE IF env.tick % (TickRate * KeepAliveFactor) = 0 /\ s.c.got_keepalive
    THEN LET s1 == Emit(s, Pkt("KeepAlive", <<id>>))
         IN  IF s1.err THEN s1
             ELSE [s1 EXCEPT !.c.last_keepalive_id = id,
                             !.c.got_keepalive = FALSE]
    ELSE s

\* client.rs 1073-1083: the keepalive supervisor; id is the random identifier
KeepAlive(s, env, id) ==
    IF s.err THEN s
    ELSE IF env.tick % (TickRate * KeepAliveFactor) = 0
    THEN IF s.c.got_keepalive
         THEN LET s1 == Emit(s, Pkt("KeepAlive", <<id>>))
              IN  IF s1.err THEN s1
                  ELSE [s1 EXCEPT !.c.last_keepalive_id = id,
                                  !.c.got_keepalive = FALSE]
         ELSE Bail(s, "keepalive")
    ELSE s

\* client.rs 1089-1105: the entity with the client's uuid
ResolveSelfEntity(s, env) ==
    IF s.err THEN s
    ELSE IF EntitiesGet(env.entities, s.c.self_entity) THEN s
    ELSE IF GetWithUuid(env.entities, s.c.uuid) # NULL
    THEN [s EXCEPT !.c.self_entity = GetWithUuid(env.entities, s.c.uuid)]
    ELSE s

\* self_entity_pos, self_entity_world, self_entity_range of the run
SelfEntityInfo(c, env) ==
    IF EntitiesGet(env.entities, c.self_entity)
    THEN [pos   |-> ChunkPosAt(env.entities[c.self_entity].position),
          world |-> env.entities[c.self_entity].world,
          range |-> SelfUpdateRange(env.entities, c.self_entity)]
    ELSE [pos |-> <<0, 0>>, world |-> NULL, range |-> <<0, 0>>]

\* mutant: the center chunk is sent in every update
CenterChunk_Always(s) ==
    IF s.err THEN s
    ELSE Emit(s, Pkt("SetCenterChunk", ChunkPosAt(s.c.position)))

\* the center chunk is never set
CenterChunk_Never(s) ==
    s

\* client.rs 1107-1117
CenterChunk(s) ==
    IF s.err THEN s
    ELSE IF ChunkPosAt(s.c.old_position) # ChunkPosAt(s.c.position)
    THEN Emit(s, Pkt("SetCenterChunk", ChunkPosAt(s.c.position)))
    ELSE s

(***************************************************************************)
(* View differencing (client.rs 1119-1370).                                *)
(***************************************************************************)
\* debug_assertions: assert!(self.loaded_chunks.remove(&pos))
AssertRemoveLoaded(s, pos) ==
    [s EXCEPT !.c.assert_failed = @ \/ pos \notin s.c.loaded_chunks,
              !.c.loaded_chunks = @ \ {pos}]

\* debug_assertions: assert!(self.loaded_chunks.insert(pos))
AssertInsertLoaded(s, pos) ==
    [s EXCEPT !.c.assert_failed = @ \/ pos \in s.c.loaded_chunks,
              !.c.loaded_chunks = @ \cup {pos}]

\* a chunk created this tick is loaded even when it is deleted as well
OldViewChunk_LoadsDeleted(s, chunk, pos) ==
    IF s.err \/ ~chunk.present THEN s
    ELSE IF chunk.created_this_tick
    THEN LET s1 == Emit(s, Pkt("ChunkData", pos))
         IN  IF s1.err THEN s1
             ELSE [s1 EXCEPT !.c.loaded_chunks = @ \cup {pos}]
    ELSE IF chunk.deleted
    THEN LET s1 == Emit(s, Pkt("UnloadChunk", pos))
         IN  IF s1.err THEN s1 ELSE AssertRemoveLoaded(s1, pos)
    ELSE IF chunk.modified THEN Emit(s, Pkt("BlockChanges", pos)) ELSE s

\* client.rs 1123-1160: load, unload or update the chunk of an old-view cell
OldViewChunk(s, chunk, pos) ==
    IF s.err \/ ~chunk.present THEN s
    ELSE IF ~chunk.created_this_tick /\ ~chunk.deleted
    THEN IF chunk.modified THEN Emit(s, Pkt("BlockChanges", pos)) ELSE s
    ELSE IF chunk.created_this_tick /\ ~chunk.deleted
    THEN LET s1 == Emit(s, Pkt("ChunkData", pos))
         IN  IF s1.err THEN s1
             ELSE [s1 EXCEPT !.c.loaded_chunks = @ \cup {pos}]
    ELSE IF ~chunk.created_this_tick /\ chunk.deleted
    THEN LET s1 == Emit(s, Pkt("UnloadChunk", pos))
         IN  IF s1.err THEN s1 ELSE AssertRemoveLoaded(s1, pos)
    ELSE s

\* whether a source or destination cell lies outside the old view
OutsideOldView(c, opt) ==
    ~opt.some \/ ~IsInView(ChunkPosAt(c.old_position), opt.pos, c.old_view_distance)

RECURSIVE SpawnIncoming_Always(_, _, _)
\* every entity that entered a cell is spawned, wherever it came from
SpawnIncoming_Always(s, env, inc) ==
    IF s.err \/ inc = <<>> THEN s
    ELSE LET h  == Head(inc)
             s1 == IF env.entities[h.id].uuid # s.c.uuid
                   THEN Emit(s, Pkt("SpawnEntity", <<h.id>>))
                   ELSE s
         IN  SpawnIncoming_Always(s1, env, Tail(inc))

RECURSIVE SpawnIncoming(_, _, _)
\* client.rs 1162-1183: spawn the entities entering the view
SpawnIncoming(s, env, inc) ==
    IF s.err \/ inc = <<>> THEN s
    ELSE LET h  == Head(inc)
             s1 == IF /\ OutsideOldView(s.c, h.pos)
                      /\ env.entities[h.id].uuid # s.c.uuid
                   THEN Emit(s, Pkt("SpawnEntity", <<h.id>>))
                   ELSE s
         IN  SpawnIncoming(s1, env, Tail(inc))

\* client.rs 1185-1196: collect the entities leaving the view
DespawnOutgoing(s, out) ==
    IF s.err THEN s
    ELSE LET keep(o) == o.id # s.c.self_entity /\ OutsideOldView(s.c, o.pos)
             sel     == SelectSeq(out, keep)
         IN  [s EXCEPT !.unl = @ \o [i \in 1 .. Len(sel) |-> sel[i].id]]

\* the bytes of an entity-update blob, as packets of the sink
BlobPackets(bytes) ==
    [i \in 1 .. Len(bytes) |-> Pkt("EntityUpdate", <<bytes[i]>>)]

\* mutant: the client's own bytes are not cut out of the blob
EntityUpdates_NoSplice(s, env, pos) ==
    AppendBytes(s, BlobPackets(CachedUpdatePackets(env.entities, s.c.old_world, pos)))

\* client.rs 1198-1206: append the cell's entity updates without the client's own
EntityUpdates(s, env, pos) ==
    LET self  == SelfEntityInfo(s.c, env)
        bytes == CachedUpdatePackets(env.entities, s.c.old_world, pos)
    IN  IF pos = self.pos /\ s.c.old_world = self.world
        THEN AppendBytes(AppendBytes(s,
                 BlobPackets(SubSeq(bytes, 1, self.range[1]))),
                 BlobPackets(SubSeq(bytes, self.range[2] + 1, Len(bytes))))
        ELSE AppendBytes(s, BlobPackets(bytes))

\* mutant: the cell's entity updates are written before its chunk packet
OldViewCell_UpdatesFirst(s, env, pos) ==
    LET w  == s.c.old_world
        s0 == EntityUpdates(s, env, pos)
        s1 == OldViewChunk(s0, env.worlds[w].chunks[pos], pos)
        s2 == SpawnIncoming(s1, env, CellIncoming(env.entities, w, pos))
    IN  DespawnOutgoing(s2, CellOutgoing(env.entities, w, pos))

\* client.rs 1122-1207: one cell of the old view
OldViewCell(s, env, pos) ==
    LET w  == s.c.old_world
        s1 == OldViewChunk(s, env.worlds[w].chunks[pos], pos)
        s2 == SpawnIncoming(s1, env, CellIncoming(env.entities, w, pos))
        s3 == DespawnOutgoing(s2, CellOutgoing(env.entities, w, pos))
    IN  EntityUpdates(s3, env, pos)

RECURSIVE OldViewCells(_, _, _)
OldViewCells(s, env, seq) ==
    IF s.err \/ seq = <<>> THEN s
    ELSE OldViewCells(OldViewCell(s, env, Head(seq)), env, Tail(seq))

\* client.rs 1212-1217, 1253-1258, 1328-1333: the RemoveEntities batch
RemoveEntities(s) ==
    IF s.err \/ s.unl = <<>> THEN s
    ELSE LET s1 == Emit(s, Pkt("RemoveEntities", s.unl))
         IN  IF s1.err THEN s1 ELSE [s1 EXCEPT !.unl = <<>>]

\* client.rs 1119-1218: the pass over the view of the previous tick
OldViewPass(s, env) ==
    IF s.err \/ ~WorldsGet(env.worlds, s.c.old_world) THEN s
    ELSE RemoveEntities(OldViewCells(s, env,
             ViewSeq(ChunkPosAt(s.c.old_position), s.c.old_view_distance)))

\* client.rs 1229-1248, 1303-1322: unload the chunk and the entities of a cell
UnloadCell(s, env, w, pos) ==
    LET chunk == env.worlds[w].chunks[pos]
        s1 == IF chunk.present /\ ~chunk.deleted
              THEN LET s0 == Emit(s, Pkt("UnloadChunk", pos))
                   IN  IF s0.err THEN s0 ELSE AssertRemoveLoaded(s0, pos)
              ELSE s
    IN  IF s1.err THEN s1
        ELSE [s1 EXCEPT !.unl = @ \o SortedSeq(
                 CellEntities(env.entities, w, pos) \ {s.c.self_entity})]

RECURSIVE UnloadCells(_, _, _, _)
UnloadCells(s, env, w, seq) ==
    IF s.err \/ seq = <<>> THEN s
    ELSE UnloadCells(UnloadCell(s, env, w, Head(seq)), env, w, Tail(seq))

RECURSIVE SpawnAll(_, _, _)
\* client.rs 1278-1290, 1352-1364: spawn the entities of a cell
SpawnAll(s, env, ids) ==
    IF s.err \/ ids = <<>> THEN s
    ELSE LET s1 == IF env.entities[Head(ids)].uuid # s.c.uuid
                   THEN Emit(s, Pkt("SpawnEntity", <<Head(ids)>>))
                   ELSE s
         IN  SpawnAll(s1, env, Tail(ids))

\* client.rs 1263-1291, 1337-1365: load the chunk and the entities of a cell
LoadCell(s, env, w, pos) ==
    LET chunk == env.worlds[w].chunks[pos]
        s1 == IF chunk.present /\ ~chunk.deleted
              THEN LET s0 == Emit(s, Pkt("ChunkData", pos))
                   IN  IF s0.err THEN s0 ELSE AssertInsertLoaded(s0, pos)
              ELSE s
    IN  SpawnAll(s1, env, SortedSeq(CellEntities(env.entities, w, pos)))

RECURSIVE LoadCells(_, _, _, _)
LoadCells(s, env, w, seq) ==
    IF s.err \/ seq = <<>> THEN s
    ELSE LoadCells(LoadCell(s, env, w, Head(seq)), env, w, Tail(seq))

\* mutant: the new world is loaded before the old one is unloaded
WorldChanged_LoadsFirst(s, env) ==
    LET old == ViewSeq(ChunkPosAt(s.c.old_position), s.c.old_view_distance)
        new == ViewSeq(ChunkPosAt(s.c.position), s.c.view_distance)
        s1  == LoadCells(s, env, s.c.world, new)
    IN  IF WorldsGet(env.worlds, s.c.old_world)
        THEN RemoveEntities(UnloadCells(s1, env, s.c.old_world, old))
        ELSE s1

\* client.rs 1220-1294: the client changed the world
WorldChanged(s, env) ==
    LET old == ViewSeq(ChunkPosAt(s.c.old_position), s.c.old_view_distance)
        new == ViewSeq(ChunkPosAt(s.c.position), s.c.view_distance)
        s1  == IF WorldsGet(env.worlds, s.c.old_world)
               THEN RemoveEntities(UnloadCells(s, env, s.c.old_world, old))
               ELSE s
    IN  LoadCells(s1, env, s.c.world, new)

\* mutant: the positions in both views are not skipped
ViewChanged_ReloadsAll(s, env) ==
    LET old == ViewSeq(ChunkPosAt(s.c.old_position), s.c.old_view_distance)
        new == ViewSeq(ChunkPosAt(s.c.position), s.c.view_distance)
        s1  == RemoveEntities(UnloadCells(s, env, s.c.world, old))
    IN  LoadCells(s1, env, s.c.world, new)

\* mutant: the chunks that left the view are not unloaded
ViewChanged_KeepsOld(s, env) ==
    LET ocp == ChunkPosAt(s.c.old_position)
        cp  == ChunkPosAt(s.c.position)
        new == SelectSeq(ViewSeq(cp, s.c.view_distance),
                         LAMBDA p : ~IsInView(p, ocp, s.c.old_view_distance))
    IN  LoadCells(s, env, s.c.world, new)

\* client.rs 1295-1370: the view moved or was resized within the world
ViewChanged(s, env) ==
    LET ocp == ChunkPosAt(s.c.old_position)
        cp  == ChunkPosAt(s.c.position)
        old == SelectSeq(ViewSeq(ocp, s.c.old_view_distance),
                         LAMBDA p : ~IsInView(p, cp, s.c.view_distance))
        new == SelectSeq(ViewSeq(cp, s.c.view_distance),
                         LAMBDA p : ~IsInView(p, ocp, s.c.old_view_distance))
        s1  == RemoveEntities(UnloadCells(s, env, s.c.world, old))
    IN  LoadCells(s1, env, s.c.world, new)

\* client.rs 1220-1370
ViewChangePass(s, env) ==
    IF s.err THEN s
    ELSE IF s.c.old_world # s.c.world THEN WorldChanged(s, env)
    ELSE IF \/ ChunkPosAt(s.c.old_position) # ChunkPosAt(s.c.position)
            \/ s.c.old_view_distance # s.c.view_distance
    THEN ViewChanged(s, env)
    ELSE s

(***************************************************************************)
(* Metadata, block-change acknowledgement, inventory (client.rs 1372-1469).*)
(***************************************************************************)
\* client.rs 1372-1382
PlayerMetadata(s) ==
    IF s.err THEN s
    ELSE IF s.c.player_data_dirty
    THEN Emit(s, Pkt("SetEntityMetadata", <<0>>))
    ELSE s

\* client.rs 1384-1391
AcknowledgeBlockChange(s) ==
    IF s.err THEN s
    ELSE IF s.c.block_change_sequence # 0
    THEN LET s1 == Emit(s, Pkt("AcknowledgeBlockChange",
                               <<s.c.block_change_sequence>>))
         IN  IF s1.err THEN s1 ELSE [s1 EXCEPT !.c.block_change_sequence = 0]
    ELSE s

\* self.inv_state_id += 1
BumpStateId(s) ==
    [s EXCEPT !.c.inv_state_id = WrapInc(@)]

RECURSIVE SendSlots_SingleBump(_, _)
\* mutant: the state id is bumped once for all the modified slots
SendSlots_SingleBump(s, idxs) ==
    IF s.err \/ idxs = <<>> THEN s
    ELSE LET i  == Head(idxs)
             s1 == Emit(s, Pkt("SetContainerSlot",
                               <<0, s.c.inv_state_id, i, s.c.slots[i]>>))
         IN  IF s1.err THEN s1
             ELSE IF Tail(idxs) = <<>> THEN BumpStateId(s1)
             ELSE SendSlots_SingleBump(s1, Tail(idxs))

RECURSIVE SendSlots(_, _)
\* client.rs 1412-1423: one SetContainerSlot for every modified slot
SendSlots(s, idxs) ==
    IF s.err \/ idxs = <<>> THEN s
    ELSE LET i  == Head(idxs)
             s1 == Emit(s, Pkt("SetContainerSlot",
                               <<0, s.c.inv_state_id, i, s.c.slots[i]>>))
         IN  SendSlots(IF s1.err THEN s1 ELSE BumpStateId(s1), Tail(idxs))

\* client.rs 1397-1398: the whole inventory is sent again
WholeResend(c) ==
    c.created_this_tick \/ (c.modified_slots = U64Bits /\ c.cursor_item_modified)

\* client.rs 1395-1427: the client's own inventory
OwnInventory(s) ==
    IF s.err \/ s.c.modified_slots = {} THEN s
    ELSE LET s1 == IF WholeResend(s.c)
                   THEN LET s0 == Emit(s, Pkt("SetContainerContent",
                                    <<0, s.c.inv_state_id, s.c.cursor_item,
                                      s.c.slots>>))
                        IN  IF s0.err THEN s0
                            ELSE [BumpStateId(s0) EXCEPT
                                      !.c.cursor_item_modified = FALSE]
                   ELSE SendSlots(s, SortedSeq(s.c.modified_slots \cap Slots))
         IN  IF s1.err THEN s1 ELSE [s1 EXCEPT !.c.modified_slots = {}]

\* client.rs 1429-1440: the cursor item
CursorItem(s) ==
    IF s.err \/ ~s.c.cursor_item_modified THEN s
    ELSE LET s0 == [s EXCEPT !.c.cursor_item_modified = FALSE]
             s1 == Emit(s0, Pkt("SetContainerSlot",
                                <<-1, s.c.inv_state_id, -1, s.c.cursor_item>>))
         IN  IF s1.err THEN s1 ELSE BumpStateId(s1)

\* Inventory::send_update: forwards the per-tick update of the open inventory
InventorySendUpdate(s, inv) ==
    IF inv.modified
    THEN Emit(s, Pkt("InventoryUpdate", <<s.c.window_id, s.c.inv_state_id>>))
    ELSE s

\* the window id is advanced without wrapping
OpenWindow_NoWrap(s, env) ==
    IF s.err THEN s
    ELSE IF s.c.open_inventory_modified
    THEN LET s0 == [s EXCEPT !.c.open_inventory_modified = FALSE]
         IN  IF InventoriesGet(env.inventories, s.c.open_inventory)
             THEN LET s1 == BumpStateId([s0 EXCEPT !.c.window_id = @ + 1])
                      s2 == Emit(s1, Pkt("OpenScreen", <<s1.c.window_id>>))
                  IN  Emit(s2, Pkt("SetContainerContent",
                          <<s1.c.window_id, s1.c.inv_state_id, s1.c.cursor_item>>))
             ELSE s0
    ELSE IF InventoriesGet(env.inventories, s.c.open_inventory)
    THEN InventorySendUpdate(s, env.inventories[s.c.open_inventory])
    ELSE s

\* client.rs 1442-1469: the window the client has opened
OpenWindow(s, env) ==
    IF s.err THEN s
    ELSE IF s.c.open_inventory_modified
    THEN LET s0 == [s EXCEPT !.c.open_inventory_modified = FALSE]
         IN  IF InventoriesGet(env.inventories, s.c.open_inventory)
             THEN LET s1 == BumpStateId(
                              [s0 EXCEPT !.c.window_id = (@ % WindowIdCycle) + 1])
                      s2 == Emit(s1, Pkt("OpenScreen", <<s1.c.window_id>>))
                  IN  Emit(s2, Pkt("SetContainerContent",
                          <<s1.c.window_id, s1.c.inv_state_id, s1.c.cursor_item>>))
             ELSE s0
    ELSE IF InventoriesGet(env.inventories, s.c.open_inventory)
    THEN InventorySendUpdate(s, env.inventories[s.c.open_inventory])
    ELSE s

\* client.rs 1471-1476: the tick's closing; flushes tells whether flush succeeds
TickClosing(s, flushes) ==
    IF s.err THEN s
    ELSE LET s1 == [s EXCEPT !.c.old_world = s.c.world,
                             !.c.old_position = s.c.position,
                             !.c.old_view_distance = s.c.view_distance,
                             !.c.player_data_dirty = FALSE]
         IN  IF flushes THEN s1 ELSE Bail(s1, "io")

\* Client::update_fallible (client.rs 973-1479).  env: worlds, entities,
\* player_lists, inventories, tick.  inp: the failing sink operation, whether
\* the flush succeeds, the random keepalive identifier.
UpdateFallible(c, env, inp) ==
    LET s0  == StartRun(c, inp.fail)
        s1  == WorldCheck(s0, env)
        s2  == LoginOrSteadyState(s1, env)
        s3  == KeepAlive(s2, env, inp.ka_id)
        s4  == ResolveSelfEntity(s3, env)
        s5  == CenterChunk(s4)
        s6  == OldViewPass(s5, env)
        s7  == ViewChangePass(s6, env)
        s8  == PlayerMetadata(s7)
        s9  == AcknowledgeBlockChange(s8)
        s10 == OwnInventory(s9)
        s11 == CursorItem(s10)
        s12 == OpenWindow(s11, env)
    IN  TickClosing(s12, inp.flushes)

\* update() that leaves created_this_tick as it is
ClearCreatedThisTick_Keeps(c) ==
    c

\* client.rs 966: self.bits.set_created_this_tick(false)
ClearCreatedThisTick(c) ==
    [c EXCEPT !.created_this_tick = FALSE]

\* client.rs 943-964: what update() makes of the run s of update_fallible: the
\* sink goes back into the client, or it is dropped after an empty
\* DisconnectPlay
UpdateOutcome(s) ==
    IF ~s.err
    THEN [c |-> ClearCreatedThisTick([s.c EXCEPT !.send = SomeSend(<<>>)]),
          obs |-> [kind |-> "flushed", cause |-> "none", ops |-> s.n,
                   pkts |-> s.buf]]
    ELSE [c |-> ClearCreatedThisTick([s.c EXCEPT !.send = NoSend]),
          obs |-> [kind |-> "dropped", cause |-> s.cause, ops |-> s.n,
                   pkts |-> Append(s.buf, Pkt("DisconnectPlay", <<0>>))]]

\* mutant: the sink is put back whether or not there was one
Update_Reconnects(c, env, inp) ==
    IF c.send.some
    THEN UpdateOutcome(UpdateFallible(c, env, inp))
    ELSE [c |-> ClearCreatedThisTick([c EXCEPT !.send = SomeSend(<<>>)]),
          obs |-> [kind |-> "absent", cause |-> "none", ops |-> 0,
                   pkts |-> <<>>]]

\* mutant: the tick's closing also runs when the sink is absent
Update_ClosesWhenAbsent(c, env, inp) ==
    IF c.send.some
    THEN UpdateOutcome(UpdateFallible(c, env, inp))
    ELSE [c |-> ClearCreatedThisTick([c EXCEPT !.old_world = c.world,
                                               !.old_position = c.position,
                                               !.old_view_distance = c.view_distance]),
          obs |-> [kind |-> "absent", cause |-> "none", ops |-> 0,
                   pkts |-> <<>>]]

\* Client::update (client.rs 934-967): the client after the call, and the
\* observation of what happened to the sink: "flushed" (the packets sent),
\* "dropped" (the packets in the sink when it was dropped) or "absent", with
\* the cause of the error and the number of fallible sink operations tried.
Update(c, env, inp) ==
    IF c.send.some
    THEN UpdateOutcome(UpdateFallible(c, env, inp))
    ELSE [c |-> ClearCreatedThisTick(c),
          obs |-> [kind |-> "absent", cause |-> "none", ops |-> 0,
                   pkts |-> <<>>]]

(***************************************************************************)
(* The client store (client.rs 55-167) over a versioned handle table       *)
(* (spec.md 3): a key is (index, generation) and resolves while its slot   *)
(* is occupied with that generation.                                       *)
(***************************************************************************)
\* no update ran since the last action
NoObservation ==
    [kind |-> "none", cause |-> "none", ops |-> 0, pkts |-> <<>>]

ClientSlots == 1 .. MaxClients

\* ClientId::NULL: Key::NULL, which no slot matches
ClientIdNull == [index |-> 0, version |-> 0]

\* VersionedSlab::new: every slot vacant
NewClients ==
    [slots |-> [i \in ClientSlots |->
                   [version |-> 0, full |-> FALSE,
                    val |-> [c |-> NewClient, obs |-> NoObservation]]]]

\* Clients::get(id).is_some(), Clients::get_mut(id).is_some()
ClientsGet(cs, id) ==
    IF id.index \in ClientSlots
    THEN cs.slots[id.index].full /\ cs.slots[id.index].version = id.version
    ELSE FALSE

\* the ids that resolve
ClientIdsOf(cs) ==
    {[index |-> i, version |-> cs.slots[i].version] :
        i \in {j \in ClientSlots : cs.slots[j].full}}

VacantSlots(cs) ==
    {i \in ClientSlots : ~cs.slots[i].full}

\* Clients::insert: the client goes into a vacant slot, which gets its next
\* generation; the store and the new id
ClientsInsert(cs, c) ==
    LET i == CHOOSE j \in VacantSlots(cs) : \A k \in VacantSlots(cs) : j <= k
        v == cs.slots[i].version + 1
    IN  [cs |-> [cs EXCEPT !.slots[i] =
                    [version |-> v, full |-> TRUE,
                     val |-> [c |-> c, obs |-> NoObservation]]],
         id |-> [index |-> i, version |-> v]]

\* remove that hands the state out and leaves the client in its slot
ClientsRemove_KeepsSlot(cs, id) ==
    [cs |-> cs, some |-> ClientsGet(cs, id)]

\* Clients::remove: the store, and whether Some(state) is returned
ClientsRemove(cs, id) ==
    IF ClientsGet(cs, id)
    THEN [cs |-> [cs EXCEPT !.slots[id.index].full = FALSE], some |-> TRUE]
    ELSE [cs |-> cs, some |-> FALSE]

\* Clients::retain: the clients for which f returns false are deleted
ClientsRetain(cs, f(_, _)) ==
    [cs EXCEPT !.slots =
        [i \in ClientSlots |->
            IF cs.slots[i].full
               /\ ~f([index |-> i, version |-> cs.slots[i].version],
                     cs.slots[i].val.c)
            THEN [cs.slots[i] EXCEPT !.full = FALSE]
            ELSE cs.slots[i]]]

\* mutant: forwarding an inventory's update to a client consumes it
SharedAfterUpdate_ConsumesInventory(env, c) ==
    IF InventoriesGet(env.inventories, c.open_inventory)
    THEN [env EXCEPT !.inventories[c.open_inventory].modified = FALSE]
    ELSE env

\* Client::update (client.rs 934-942) borrows the entities, worlds, player
\* lists and inventories immutably: they are after the update of the client c
\* what they were before it
SharedAfterUpdate(env, c) ==
    env

\* the parallel update phase: every client of the store is updated
UpdateClients(cs, env, inp) ==
    [cs EXCEPT !.slots =
        [i \in ClientSlots |->
            IF cs.slots[i].full
            THEN [cs.slots[i] EXCEPT !.val = Update(cs.slots[i].val.c, env, inp)]
            ELSE cs.slots[i]]]

(***************************************************************************)
(* Player list mutation and the per-tick cache (player_list.rs 76-338).    *)
(***************************************************************************)
\* PlayerListEntry::set_game_mode
EntrySetGameMode(e, game_mode) ==
    IF e.game_mode # game_mode
    THEN [e EXCEPT !.game_mode = game_mode, !.modified_game_mode = TRUE]
    ELSE e

\* PlayerListEntry::set_ping
EntrySetPing(e, ping) ==
    IF e.ping # ping
    THEN [e EXCEPT !.ping = ping, !.modified_ping = TRUE]
    ELSE e

\* PlayerListEntry::set_display_name
EntrySetDisplayName(e, display_name) ==
    IF e.display_name # display_name
    THEN [e EXCEPT !.display_name = display_name, !.modified_display_name = TRUE]
    ELSE e

\* a PlayerListEntry made by insert: EntryBits::new().with_created_this_tick(true)
FreshEntry(username, textures, game_mode, ping, display_name) ==
    [NoEntry EXCEPT !.present = TRUE, !.username = username,
                    !.textures = textures, !.game_mode = game_mode,
                    !.ping = ping, !.display_name = display_name,
                    !.created_this_tick = TRUE]

\* insert that leaves an entry with the same username and textures as it is
PlayerListInsert_KeepsSame(pl, u, username, textures, game_mode, ping, display_name) ==
    LET e == pl.entries[u]
    IN  IF e.present /\ e.username = username /\ e.textures = textures
        THEN pl
        ELSE [pl EXCEPT
                !.removed = IF e.present /\ ~e.created_this_tick
                            THEN @ \cup {u} ELSE @,
                !.entries[u] = FreshEntry(username, textures, game_mode,
                                          ping, display_name)]

\* PlayerList::insert (player_list.rs 234-280)
PlayerListInsert(pl, u, username, textures, game_mode, ping, display_name) ==
    LET e == pl.entries[u]
    IN  IF e.present
        THEN IF e.username # username \/ e.textures # textures
             THEN [pl EXCEPT
                     !.removed = IF ~e.created_this_tick THEN @ \cup {u} ELSE @,
                     !.entries[u] = FreshEntry(username, textures, game_mode,
                                               ping, display_name)]
             ELSE [pl EXCEPT !.entries[u] =
                     EntrySetDisplayName(
                         EntrySetPing(EntrySetGameMode(e, game_mode), ping),
                         display_name)]
        ELSE [pl EXCEPT !.entries[u] = FreshEntry(username, textures, game_mode,
                                                  ping, display_name)]

\* the value PlayerList::insert returns (player_list.rs 266, 277)
PlayerListInsertReturns(pl, u) ==
    ~pl.entries[u].present

\* the value PlayerList::remove returns (player_list.rs 285-290)
PlayerListRemoveReturns(pl, u) ==
    pl.entries[u].present

\* remove that does not record the uuid as removed
PlayerListRemove_Forgets(pl, u) ==
    IF pl.entries[u].present
    THEN [pl EXCEPT !.entries[u] = NoEntry]
    ELSE pl

\* PlayerList::remove (player_list.rs 284-291)
PlayerListRemove(pl, u) ==
    IF pl.entries[u].present
    THEN [pl EXCEPT !.entries[u] = NoEntry, !.removed = @ \cup {u}]
    ELSE pl

\* PlayerList::clear (player_list.rs 308-310)
PlayerListClear(pl) ==
    [pl EXCEPT !.removed = @ \cup Keys(pl), !.entries = [u \in Uuids |-> NoEntry]]

\* PlayerList::set_header
SetHeader(pl, header) ==
    IF pl.header # header
    THEN [pl EXCEPT !.header = header, !.modified_header_or_footer = TRUE]
    ELSE pl

\* PlayerList::set_footer
SetFooter(pl, footer) ==
    IF pl.footer # footer
    THEN [pl EXCEPT !.footer = footer, !.modified_header_or_footer = TRUE]
    ELSE pl

\* entry.bits = EntryBits::new()
ResetBits(e) ==
    [e EXCEPT !.created_this_tick = FALSE, !.modified_game_mode = FALSE,
              !.modified_ping = FALSE, !.modified_display_name = FALSE]

\* update_caches that puts the modified fields of an entry created this tick
\* into the update batches as well
CachePackets_UpdatesCreated(pl) ==
    LET ks   == Keys(pl)
        add  == {u \in ks : pl.entries[u].created_this_tick}
        gm   == {u \in ks : pl.entries[u].modified_game_mode}
        pg   == {u \in ks : pl.entries[u].modified_ping}
        dn   == {u \in ks : pl.entries[u].modified_display_name}
        one(t, us, Rec(_)) ==
            IF us # {} THEN <<Pkt(t, RecordsOf(us, Rec))>> ELSE <<>>
    IN  (IF pl.removed # {}
         THEN <<Pkt("RemovePlayer", SortedSeq(pl.removed))>> ELSE <<>>)
        \o one("AddPlayer", add, LAMBDA u : AddPlayerRecord(pl, u))
        \o one("UpdateGameMode", gm, LAMBDA u : <<u, pl.entries[u].game_mode>>)
        \o one("UpdateLatency", pg, LAMBDA u : <<u, pl.entries[u].ping>>)
        \o one("UpdateDisplayName", dn,
               LAMBDA u : <<u, pl.entries[u].display_name>>)
        \o (IF pl.modified_header_or_footer
            THEN <<Pkt("SetTabListHeaderAndFooter", <<pl.header, pl.footer>>)>>
            ELSE <<>>)

\* the packets update_caches writes for one player list (player_list.rs 89-172)
CachePackets(pl) ==
    LET ks   == Keys(pl)
        add  == {u \in ks : pl.entries[u].created_this_tick}
        gm   == {u \in ks \ add : pl.entries[u].modified_game_mode}
        pg   == {u \in ks \ add : pl.entries[u].modified_ping}
        dn   == {u \in ks \ add : pl.entries[u].modified_display_name}
        one(t, us, Rec(_)) ==
            IF us # {} THEN <<Pkt(t, RecordsOf(us, Rec))>> ELSE <<>>
    IN  (IF pl.removed # {}
         THEN <<Pkt("RemovePlayer", SortedSeq(pl.removed))>> ELSE <<>>)
        \o one("AddPlayer", add, LAMBDA u : AddPlayerRecord(pl, u))
        \o one("UpdateGameMode", gm, LAMBDA u : <<u, pl.entries[u].game_mode>>)
        \o one("UpdateLatency", pg, LAMBDA u : <<u, pl.entries[u].ping>>)
        \o one("UpdateDisplayName", dn,
               LAMBDA u : <<u, pl.entries[u].display_name>>)
        \o (IF pl.modified_header_or_footer
            THEN <<Pkt("SetTabListHeaderAndFooter", <<pl.header, pl.footer>>)>>
            ELSE <<>>)

\* update_caches that leaves the entries' bits and the header/footer flag set
UpdateCache_KeepsBits(pl) ==
    [pl EXCEPT !.cached_update_packets = CachePackets(pl)]

\* one iteration of the loop of update_caches (player_list.rs 80-173)
UpdateCache(pl) ==
    [pl EXCEPT !.cached_update_packets = CachePackets(pl),
               !.entries = [u \in Uuids |->
                               IF pl.entries[u].present
                               THEN ResetBits(pl.entries[u]) ELSE pl.entries[u]],
               !.modified_header_or_footer = FALSE]

\* PlayerLists::update_caches (player_list.rs 76-174)
UpdateCaches(pls) ==
    [id \in PlayerListIds |->
        IF pls[id].exists THEN UpdateCache(pls[id]) ELSE pls[id]]

\* clear_removed that leaves the removed set as it is
ClearRemovedOf_Keeps(pl) ==
    pl

\* one iteration of the loop of clear_removed
ClearRemovedOf(pl) ==
    [pl EXCEPT !.removed = {}]

\* PlayerLists::clear_removed (player_list.rs 176-180)
ClearRemoved(pls) ==
    [id \in PlayerListIds |->
        IF pls[id].exists THEN ClearRemovedOf(pls[id]) ELSE pls[id]]

(***************************************************************************)
(* The server tick (spec.md 2 and 5): update_caches, the client's update,  *)
(* clear_removed, then the end-of-tick sweep of worlds, chunks, entities   *)
(* and inventories.                                                        *)
(***************************************************************************)
NoChunk ==
    [present |-> FALSE, created_this_tick |-> FALSE, deleted |-> FALSE,
     modified |-> FALSE]

LiveChunk ==
    [NoChunk EXCEPT !.present = TRUE]

NoEntity ==
    [exists |-> FALSE, uuid |-> 0, world |-> NULL, old_world |-> NULL,
     position |-> <<0, 0>>, old_position |-> <<0, 0>>, created |-> FALSE,
     deleted |-> FALSE, upd |-> 0]

\* chunks lose created_this_tick and their block changes; deleted chunks go
EndTickChunk(ch) ==
    IF ~ch.present \/ ch.deleted THEN NoChunk
    ELSE [ch EXCEPT !.created_this_tick = FALSE, !.modified = FALSE]

\* deleted worlds go
EndTickWorlds(ws) ==
    [w \in WorldIds |->
        IF ~ws[w].exists \/ ws[w].deleted
        THEN [ws[w] EXCEPT !.exists = FALSE, !.deleted = FALSE,
                           !.chunks = [p \in Grid |-> NoChunk]]
        ELSE [ws[w] EXCEPT !.chunks = [p \in Grid |-> EndTickChunk(ws[w].chunks[p])]]]

\* deleted entities go; the others forget the tick's movement
EndTickEntities(ents) ==
    [e \in EntityIds |->
        IF ~ents[e].exists \/ ents[e].deleted THEN NoEntity
        ELSE [ents[e] EXCEPT !.old_world = ents[e].world,
                             !.old_position = ents[e].position,
                             !.created = FALSE, !.upd = 0]]

EndTickInventories(invs) ==
    [i \in InventoryIds |-> [invs[i] EXCEPT !.modified = FALSE]]

\* the inputs of one update: the failing sink operation (if any), whether
\* the flush succeeds, the random keepalive identifier
KeepAliveIds == {1, 2}
Failures == {NoFailure} \cup {FailureAt(k) : k \in 0 .. MaxFailAt}
UpdateInputs == [fail : Failures, flushes : BOOLEAN, ka_id : {1}]
GoodInput == [fail |-> NoFailure, flushes |-> TRUE, ka_id |-> 1]

\* the host's last call on the client since the last tick, when it was one
\* that queues a packet: whether the packet encoded
NoCall == [op |-> "none", encodes |-> TRUE]

\* the host's last call on a player list since the last tick: its name, its
\* arguments and the value it returned
NoReturn == [op |-> "none", u |-> 0, args |-> <<>>, val |-> FALSE]

\* what the client has last been sent for each slot of its own inventory
\* (window 0), after the packets buf were written to its sink: a
\* SetContainerContent carries all the slots, a SetContainerSlot one; sent is
\* what it had been sent before
SentAfter(sent, buf) ==
    [i \in Slots |->
        LET whole == {j \in 1 .. Len(buf) :
                        buf[j].t = "SetContainerContent" /\ buf[j].a[1] = 0}
            one   == {j \in 1 .. Len(buf) :
                        /\ buf[j].t = "SetContainerSlot"
                        /\ buf[j].a[1] = 0 /\ buf[j].a[3] = i}
        IN  IF one # {} THEN buf[CHOOSE j \in one : \A k \in one : k <= j].a[4]
            ELSE IF whole # {}
            THEN buf[CHOOSE j \in whole : \A k \in whole : k <= j].a[4][i]
            ELSE sent[i]]

\* the state ids carried by the container packets (SetContainerContent and
\* SetContainerSlot, of any window) of buf, in emission order
StateIdsOf(buf) ==
    LET at == SortedSeq({j \in 1 .. Len(buf) :
                           buf[j].t \in {"SetContainerContent", "SetContainerSlot"}})
    IN  [k \in 1 .. Len(at) |-> buf[at[k]].a[2]]

RECURSIVE ApplyEntities(_, _)
\* the entities a client has spawned after it applied the packets buf in
\* order, having had m.spawned before: SpawnEntity adds its entity,
\* RemoveEntities removes its ids; m.twice tells that an entity it had was
\* spawned again
ApplyEntities(m, buf) ==
    IF buf = <<>> THEN m
    ELSE LET p == Head(buf)
         IN  ApplyEntities(
                 IF p.t = "SpawnEntity"
                 THEN [spawned |-> m.spawned \cup {p.a[1]},
                       twice |-> m.twice \/ p.a[1] \in m.spawned]
                 ELSE IF p.t = "RemoveEntities"
                 THEN [m EXCEPT !.spawned = @ \ {p.a[j] : j \in 1 .. Len(p.a)}]
                 ELSE m,
                 Tail(buf))

RECURSIVE ApplyTab(_, _)
\* the uuids a client shows in its tab list after it applied the packets buf
\* in order, having shown tab before: AddPlayer adds the uuids of its
\* records, RemovePlayer removes its uuids
ApplyTab(tab, buf) ==
    IF buf = <<>> THEN tab
    ELSE LET p  == Head(buf)
             us == {IF p.t = "RemovePlayer" THEN p.a[j] ELSE p.a[j][1] :
                      j \in 1 .. (IF p.t \in {"AddPlayer", "RemovePlayer"}
                                  THEN Len(p.a) ELSE 0)}
         IN  ApplyTab(IF p.t = "AddPlayer" THEN tab \cup us
                      ELSE IF p.t = "RemovePlayer" THEN tab \ us
                      ELSE tab, Tail(buf))

\* the last call of the host panicked
Panicked ==
    hist.ret.op = "replace_cursor_item" /\ ~hist.ret.val

\* the state id of the last container packet the client was sent, as a
\* sequence of one state id, or of none before the first; sid is what it was
\* before the packets buf
LastStateId(sid, buf) ==
    LET ids == StateIdsOf(buf)
    IN  IF ids = <<>> THEN sid ELSE <<ids[Len(ids)]>>

Env(pls) ==
    [worlds |-> worlds, entities |-> entities, player_lists |-> pls,
     inventories |-> inventories, tick |-> tick]

Min(a, b) == IF a < b THEN a ELSE b

\* the end of a tick in which update_caches left the player lists pls and the
\* client's update returned r
\* the PlayerListId handles to the list id held by the client c
HeldBy(c, id) ==
    Cardinality({f \in {"player_list", "old_player_list"} : c[f] = id})

\* ignores the handle a client keeps in old_player_list
RefCount_IgnoresOld(id, c, cs, host) ==
    host[id]
    + Cardinality({f \in {"player_list"} : c[f] = id})
    + Cardinality({i \in ClientSlots :
                     cs.slots[i].full /\ cs.slots[i].val.c.player_list = id})

\* the reference count of the player list id: the handles held by the host
\* and the clones in player_list and old_player_list of every client
RefCount(id, c, cs, host) ==
    host[id]
    + HeldBy(c, id)
    + Cardinality({<<i, f>> \in ClientSlots \X {"player_list", "old_player_list"} :
                     cs.slots[i].full /\ cs.slots[i].val.c[f] = id})

\* the end-of-tick sweep of the refcounted table: the lists to which no
\* handle is left are deleted
CollectGarbage(pls, c, cs, host) ==
    [id \in PlayerListIds |->
        IF pls[id].exists /\ RefCount(id, c, cs, host) = 0
        THEN NoPlayerList ELSE pls[id]]

\* how far the host has come, with the tick that now ends, through the story
\* "a uuid that was not in the list is inserted in one tick, removed in the
\* next, and nothing is changed in the third", each being the only mutation of
\* its tick: h is the history and pls the player lists before update_caches
NextStory(h, pls) ==
    IF h.muts = 1 /\ Cardinality(h.ins) = 1
    THEN LET iu == CHOOSE x \in h.ins : TRUE
         IN  IF pls[iu[1]].entries[iu[2]].present
             THEN [stage |-> 1, id |-> iu[1], u |-> iu[2]]
             ELSE [stage |-> 0, id |-> NoList, u |-> 0]
    ELSE IF /\ h.story.stage = 1 /\ h.muts = 1
            /\ pls[h.story.id].removed = {h.story.u}
            /\ ~pls[h.story.id].entries[h.story.u].present
    THEN [h.story EXCEPT !.stage = 2]
    ELSE IF h.story.stage = 2 /\ h.muts = 0
    THEN [h.story EXCEPT !.stage = 3]
    ELSE [stage |-> 0, id |-> NoList, u |-> 0]

EndTick(pls, r) ==
    LET ka == Has(r.obs.pkts, "KeepAlive")
    IN  /\ client' = r.c
        /\ wire' = r.obs
        /\ clients' = UpdateClients(clients, Env(pls), GoodInput)
        /\ player_lists' = CollectGarbage(ClearRemoved(pls), r.c, clients',
                                          hist.host_handles)
        /\ worlds' = EndTickWorlds(worlds)
        /\ entities' = EndTickEntities(entities)
        /\ inventories' = EndTickInventories(inventories)
        /\ tick' = tick + 1
        /\ hist' = [hist EXCEPT
                        !.ka_tick = IF ka THEN tick ELSE @,
                        !.ka_acked = IF ka THEN FALSE ELSE @,
                        !.quiet = IF hist.pl_mutated THEN 0 ELSE Min(@ + 1, 2),
                        !.pl_mutated = FALSE,
                        !.ins = {},
                        !.muts = 0,
                        !.story = NextStory(hist, player_lists),
                        !.call = NoCall,
                        !.ret = NoReturn,
                        !.sent = SentAfter(@, r.obs.pkts),
                        !.sid = LastStateId(@, r.obs.pkts),
                        !.center = IF r.obs.kind = "flushed"
                                   THEN <<ChunkPosAt(r.c.position)>> ELSE @,
                        !.tab = IF @ # <<>> /\ r.obs.kind = "flushed"
                                THEN <<ApplyTab(@[1], r.obs.pkts)>> ELSE @,
                        !.respawned = IF @ # <<>> THEN <<FALSE>> ELSE @,
                        !.ents = IF @ # <<>> /\ r.obs.kind = "flushed"
                                 THEN <<ApplyEntities(@[1], r.obs.pkts)>> ELSE @,
                        !.seen = IF @ # <<>> /\ r.obs.kind = "flushed"
                                 THEN <<r.c.player_list>> ELSE @]

\* one tick of the server for the client, with the inputs inp
TickWith(pls, inp) ==
    EndTick(pls, Update(client, Env(pls), inp))

ServerTick(inp) ==
    TickWith(UpdateCaches(player_lists), inp)

(***************************************************************************)
(* Initial states.                                                         *)
(***************************************************************************)
InitWorld(dim) ==
    [exists |-> TRUE, deleted |-> FALSE, dimension |-> dim,
     chunks |-> [p \in Grid |-> LiveChunk]]

InitHist ==
    [ka_tick |-> -1, ka_acked |-> FALSE, quiet |-> 0, pl_mutated |-> FALSE,
     acts |-> 0, ins |-> {}, muts |-> 0,
     story |-> [stage |-> 0, id |-> NoList, u |-> 0],
     tp_ids |-> <<>>, tp_acked |-> 0,
     host_handles |-> [id \in PlayerListIds |-> 1],
     dead |-> {},
     call |-> NoCall,
     ret |-> NoReturn,
     sent |-> [i \in Slots |-> 0],
     sid |-> <<>>,
     center |-> <<>>,
     tab |-> <<>>,
     respawned |-> <<>>,
     ents |-> <<>>,
     seen |-> <<>>,
     par |-> [updating |-> FALSE, pending |-> {}, clients |-> NewClients,
              env |-> [worlds |-> [w \in WorldIds |-> InitWorld(w)],
                       entities |-> [e \in EntityIds |-> NoEntity],
                       player_lists |-> [id \in PlayerListIds |-> NoPlayerList],
                       inventories |-> [i \in InventoryIds |->
                                           [exists |-> FALSE, modified |-> FALSE]],
                       tick |-> 0]]]

\* a player list holding one entry that was not created this tick
OneEntryList ==
    [NewPlayerList EXCEPT !.entries[2] = ResetBits(FreshEntry(1, 0, 0, 0, 0))]

(***************************************************************************)
(* SpecLife: the life of one connection: login, host-queued packets,       *)
(* respawn, disconnects, lost connection, keepalive, failing writes.       *)
(***************************************************************************)
InitLife ==
    /\ client = NewClient
    /\ worlds = [w \in WorldIds |-> InitWorld(w)]
    /\ entities = [e \in EntityIds |-> NoEntity]
    /\ player_lists = [id \in PlayerListIds |->
                          IF id = 1 THEN OneEntryList ELSE NoPlayerList]
    /\ inventories = [i \in InventoryIds |-> [exists |-> FALSE, modified |-> FALSE]]
    /\ tick = 0
    /\ clients = NewClients
    /\ wire = NoObservation
    /\ hist = InitHist

\* the host acts on the client only in the first ticks of the connection
HostActive ==
    tick <= MaxHostTick

\* the sink has room for one more host-queued packet
HasRoom ==
    Len(client.send.buf) < MaxQueued

\* the host made a call: op is "queue_packet" for a setter that queues one
\* packet, "disconnect" for disconnect() and "none" for the others; encodes
\* tells whether the packet encoded
Called(op, encodes) ==
    hist' = [hist EXCEPT !.call = [op |-> op, encodes |-> encodes]]

LifeRespawn(w) ==
    /\ HostActive
    /\ client' = RespawnTo(client, w)
    /\ wire' = NoObservation
    /\ Called("none", TRUE)
    /\ UNCHANGED <<clients, worlds, entities, player_lists, inventories, tick>>

LifeTeleport(encodes) ==
    /\ HostActive /\ HasRoom
    /\ client.teleport_id_counter < MaxQueued
    /\ client' = Teleport(client, <<24, 8>>, encodes)
    /\ wire' = NoObservation
    /\ Called("queue_packet", encodes)
    /\ UNCHANGED <<clients, worlds, entities, player_lists, inventories, tick>>

LifeSendMessage(encodes) ==
    /\ HostActive /\ HasRoom
    /\ client' = SendMessage(client, encodes)
    /\ wire' = NoObservation
    /\ Called("queue_packet", encodes)
    /\ UNCHANGED <<clients, worlds, entities, player_lists, inventories, tick>>

LifeDisconnect(encodes) ==
    /\ client' = Disconnect(client, encodes)
    /\ wire' = NoObservation
    /\ Called("disconnect", encodes)
    /\ UNCHANGED <<clients, worlds, entities, player_lists, inventories, tick>>

LifePrepareC2s(received) ==
    /\ client' = PrepareC2sPackets(client, received)
    /\ wire' = NoObservation
    /\ Called("none", TRUE)
    /\ UNCHANGED <<clients, worlds, entities, player_lists, inventories, tick>>

LifeKeepAliveResponse(id) ==
    /\ client' = NextEventKeepAlive(client, id)
    /\ hist' = [hist EXCEPT !.ka_acked = @ \/ ~IsDisconnected(client'),
                            !.call = NoCall]
    /\ wire' = NoObservation
    /\ UNCHANGED <<clients, worlds, entities, player_lists, inventories, tick>>

LifeSetPlayerList(id) ==
    /\ HostActive
    /\ IF id = NoList THEN TRUE ELSE player_lists[id].exists
    /\ client' = SetPlayerList(client, id)
    /\ wire' = NoObservation
    /\ Called("none", TRUE)
    /\ UNCHANGED <<clients, worlds, entities, player_lists, inventories, tick>>

\* the host deletes a world: it is marked deleted and goes at the end of the tick
LifeDeleteWorld(w) ==
    /\ HostActive
    /\ worlds[w].exists /\ ~worlds[w].deleted
    /\ worlds' = [worlds EXCEPT ![w].deleted = TRUE]
    /\ wire' = NoObservation
    /\ Called("none", TRUE)
    /\ UNCHANGED <<client, clients, entities, player_lists, inventories, tick>>

LifeTick(inp) ==
    /\ tick < MaxTick
    /\ ServerTick(inp)

NextLife ==
    \/ \E w \in WorldIds : LifeRespawn(w)
    \/ \E b \in BOOLEAN : LifeTeleport(b)
    \/ \E b \in BOOLEAN : LifeSendMessage(b)
    \/ \E b \in BOOLEAN : LifeDisconnect(b)
    \/ \E b \in BOOLEAN : LifePrepareC2s(b)
    \/ \E id \in KeepAliveIds : LifeKeepAliveResponse(id)
    \/ \E id \in {NoList, 1} : LifeSetPlayerList(id)
    \/ LifeDeleteWorld(2)
    \/ \E inp \in UpdateInputs : LifeTick(inp)

SpecLife == InitLife /\ [][NextLife]_vars

(***************************************************************************)
(* Properties of the connection's life.                                    *)
(***************************************************************************)
\* a step of the server tick
IsTick ==
    tick' = tick + 1

\* the world binding check of the coming update passes
WorldBound ==
    IF WorldsGet(worlds, client.world) THEN ~worlds[client.world].deleted ELSE FALSE

TypesOf(buf) ==
    [i \in 1 .. Len(buf) |-> buf[i].t]

\* C1 as stated: in every tick in which a client with a sink has
\* created_this_tick set and update() runs, the first packet of the client's
\* outbound stream is LoginPlay.
C1_Original ==
    [][(IsTick /\ client.created_this_tick /\ client.send.some)
          => (Len(wire'.pkts) > 0 /\ wire'.pkts[1].t = "LoginPlay")]_vars

\* C1 amended: in every tick in which a client with a sink has
\* created_this_tick set, its world passes the world binding check and the
\* LoginPlay packet is written, the tick's outbound stream starts with
\* LoginPlay, then holds the packets the host queued earlier in the tick, in
\* their order, then what update() itself emits; there is one LoginPlay.
C1_LoginPlayFirst ==
    [][(/\ IsTick /\ client.created_this_tick /\ client.send.some
        /\ WorldBound
        /\ ~(wire'.cause = "io" /\ wire'.ops = 1))
          => LET n == Len(client.send.buf)
             IN  /\ Len(wire'.pkts) > n
                 /\ wire'.pkts[1].t = "LoginPlay"
                 /\ TypesOf(SubSeq(wire'.pkts, 2, n + 1)) = TypesOf(client.send.buf)
                 /\ Count(wire'.pkts, "LoginPlay") = 1]_vars

\* C1 witness: a new client's first update put LoginPlay ahead of a teleport
\* and a message the host had queued, and of the chunks it loaded
C1_Witness ==
    /\ wire.kind = "flushed"
    /\ Len(wire.pkts) > 3
    /\ wire.pkts[1].t = "LoginPlay"
    /\ wire.pkts[2].t = "SynchronizePlayerPosition"
    /\ wire.pkts[3].t = "SystemChatMessage"
    /\ Has(wire.pkts, "ChunkData")

\* C2: disconnection is absorbing: once is_disconnected() holds it holds
\* after every later operation, further update() calls included.
C2_DisconnectAbsorbing ==
    [][IsDisconnected(client) => IsDisconnected(client')]_vars

\* C2 witness: an update ran on a disconnected client, after the host went on
\* using it (a respawn), and it is still disconnected
C2_Witness ==
    /\ IsDisconnected(client)
    /\ wire.kind = "absent"
    /\ client.world # NULL
    /\ tick > 1

\* C3 as stated: with the sink absent, update() emits nothing and leaves
\* every field of the client unchanged.
C3_Original ==
    [][(IsTick /\ IsDisconnected(client))
          => (wire'.pkts = <<>> /\ client' = client)]_vars

\* C3 amended: with the sink absent, update() emits nothing and leaves every
\* field of the client unchanged except created_this_tick, which it clears.
C3_AbsentSinkNoOp ==
    [][(IsTick /\ IsDisconnected(client))
          => /\ wire'.kind = "absent" /\ wire'.pkts = <<>>
             /\ client' = [client EXCEPT !.created_this_tick = FALSE]]_vars

\* C3 witness: an update found the sink absent while the client had pending
\* work (a respawn and a new position) that stayed pending
C3_Witness ==
    /\ wire.kind = "absent"
    /\ client.respawn
    /\ client.position # client.old_position
    /\ client.world # client.old_world

\* C4: if at update time the client's world handle does not resolve or the
\* world is marked deleted, the update fails before producing any other
\* packet: an empty DisconnectPlay is appended to what the sink held, the
\* sink is dropped and the client is disconnected; nothing else changes.
C4_InvalidWorldDisconnects ==
    [][(IsTick /\ client.send.some /\ ~WorldBound)
          => /\ wire'.kind = "dropped" /\ wire'.cause = "world"
             /\ Len(wire'.pkts) = Len(client.send.buf) + 1
             /\ TypesOf(wire'.pkts) = TypesOf(client.send.buf) \o <<"DisconnectPlay">>
             /\ wire'.pkts[Len(wire'.pkts)].a = <<0>>
             /\ client' = [client EXCEPT !.send = NoSend,
                                         !.created_this_tick = FALSE]]_vars

\* C4 witness: a client that was already logged in was dropped because its
\* world had been deleted
C4_Witness ==
    /\ wire.kind = "dropped" /\ wire.cause = "world"
    /\ client.world = 2 /\ client.old_world = 2
    /\ IsDisconnected(client)

\* the update of this tick comes one keepalive period after the update that
\* emitted the last KeepAlive
KeepAliveDue ==
    hist.ka_tick >= 0 /\ tick = hist.ka_tick + TickRate * KeepAliveFactor

BlockPos(x) ==
    <<x * ChunkWidth + (ChunkWidth \div 2), ChunkWidth \div 2>>

\* the entity e, residing in world w at the chunk column x since before the tick
OldEntity(e, w, x) ==
    [NoEntity EXCEPT !.exists = TRUE, !.uuid = e, !.world = w, !.old_world = w,
                     !.position = BlockPos(x), !.old_position = BlockPos(x)]

\* the server ran before the client joined: the entity with the client's
\* uuid may exist, another entity does, and a chunk of world 1 may be missing
InitView ==
    /\ client = NewClient
    /\ \E b \in BOOLEAN :
          worlds = [w \in WorldIds |->
                       IF w = 1 /\ b
                       THEN [InitWorld(w) EXCEPT !.chunks[<<0, 0>>] = NoChunk]
                       ELSE InitWorld(w)]
    /\ \E b \in BOOLEAN :
          entities = [e \in EntityIds |->
                         IF e = 1
                         THEN IF b THEN OldEntity(1, 1, 1) ELSE NoEntity
                         ELSE OldEntity(e, 1, MaxChunkX - 1)]
    /\ player_lists = [id \in PlayerListIds |-> NoPlayerList]
    /\ inventories = [i \in InventoryIds |-> [exists |-> FALSE, modified |-> FALSE]]
    /\ tick = 0
    /\ clients = NewClients
    /\ wire = NoObservation
    /\ hist = [InitHist EXCEPT !.respawned = <<FALSE>>,
                               !.ents = <<[spawned |-> {}, twice |-> FALSE]>>]

\* the chunk columns the client walks to, those where entities are put, the
\* cells whose chunks change, and the inputs of the updates
ClientColumns == {0, MaxChunkX \div 2, MaxChunkX}
EntityColumns == {1, MaxChunkX - 1}
BusyCells == {<<0, 0>>, <<MaxChunkX - 1, 0>>}
ViewInputs == {GoodInput, [GoodInput EXCEPT !.fail = FailureAt(MaxFailAt)]}

\* the host and the client act a bounded number of times, and only while the
\* client is connected
MayAct ==
    client.send.some /\ hist.acts < MaxActs /\ tick < MaxShortTick /\ ~Panicked

Acted ==
    /\ hist' = [hist EXCEPT !.acts = @ + 1, !.ret = NoReturn]
    /\ wire' = NoObservation

ViewRespawn(w) ==
    /\ MayAct
    /\ w # client.world
    /\ client' = RespawnTo(client, w)
    /\ hist' = [hist EXCEPT !.acts = @ + 1, !.ret = NoReturn,
                            !.respawned = <<TRUE>>]
    /\ wire' = NoObservation
    /\ UNCHANGED <<clients, worlds, entities, player_lists, inventories, tick>>

\* the client walks to the chunk column x
ViewMove(x) ==
    /\ MayAct
    /\ client.position # BlockPos(x)
    /\ client' = NextEventMove(client, BlockPos(x))
    /\ Acted
    /\ UNCHANGED <<clients, worlds, entities, player_lists, inventories, tick>>

\* the distances the host passes to set_view_distance (a u8): below the
\* range, the two smallest of the range, and the largest u8
ViewDistances == {0, MinViewDistance, MinViewDistance + 1, U8Max}

ViewSetViewDistance(d) ==
    /\ MayAct
    /\ client' = SetViewDistance(client, d)
    /\ client' # client
    /\ Acted
    /\ UNCHANGED <<clients, worlds, entities, player_lists, inventories, tick>>

ViewSetSkinParts ==
    /\ MayAct
    /\ ~client.player_data_dirty
    /\ client' = SetSkinParts(client)
    /\ Acted
    /\ UNCHANGED <<clients, worlds, entities, player_lists, inventories, tick>>

\* Chunks::insert: the chunk is created this tick, where there was none or
\* over the chunk that was there (client.rs 1139-1141: "Chunks are allowed to
\* be overwritten and their 'created this tick' flag will become true again")
ViewInsertChunk(p) ==
    /\ MayAct
    /\ ~worlds[1].chunks[p].created_this_tick /\ ~worlds[1].chunks[p].deleted
    /\ worlds' = [worlds EXCEPT ![1].chunks[p] =
                     [LiveChunk EXCEPT !.created_this_tick = TRUE]]
    /\ Acted
    /\ UNCHANGED <<client, clients, entities, player_lists, inventories, tick>>

\* Chunks::delete: the chunk is marked deleted until the end of the tick
ViewDeleteChunk(p) ==
    /\ MayAct
    /\ worlds[1].chunks[p].present /\ ~worlds[1].chunks[p].deleted
    /\ worlds' = [worlds EXCEPT ![1].chunks[p].deleted = TRUE]
    /\ Acted
    /\ UNCHANGED <<client, clients, entities, player_lists, inventories, tick>>

\* a block of the chunk is set
ViewModifyChunk(p) ==
    /\ MayAct
    /\ worlds[1].chunks[p].present /\ ~worlds[1].chunks[p].modified
    /\ worlds' = [worlds EXCEPT ![1].chunks[p].modified = TRUE]
    /\ Acted
    /\ UNCHANGED <<client, clients, entities, player_lists, inventories, tick>>

\* Entities::insert_with_uuid: uuids are unique, so the entity with the
\* client's uuid is always entity 1
ViewCreateEntity(e, w, x) ==
    /\ MayAct
    /\ ~entities[e].exists
    /\ entities' = [entities EXCEPT ![e] =
                       [OldEntity(e, w, x) EXCEPT !.old_world = NULL,
                                                  !.created = TRUE]]
    /\ Acted
    /\ UNCHANGED <<client, clients, worlds, player_lists, inventories, tick>>

\* Entity::set_position
ViewMoveEntity(e, x) ==
    /\ MayAct
    /\ entities[e].exists /\ ~entities[e].deleted
    /\ entities[e].position # BlockPos(x)
    /\ entities' = [entities EXCEPT ![e].position = BlockPos(x)]
    /\ Acted
    /\ UNCHANGED <<client, clients, worlds, player_lists, inventories, tick>>

\* Entities::delete: the entity is marked deleted until the end of the tick
ViewDeleteEntity(e) ==
    /\ MayAct
    /\ entities[e].exists /\ ~entities[e].deleted
    /\ entities' = [entities EXCEPT ![e].deleted = TRUE]
    /\ Acted
    /\ UNCHANGED <<client, clients, worlds, player_lists, inventories, tick>>

\* a tracked field of the entity changes: it gets update bytes this tick
ViewUpdateEntity(e) ==
    /\ MayAct
    /\ entities[e].exists /\ ~entities[e].deleted /\ entities[e].upd = 0
    /\ entities' = [entities EXCEPT ![e].upd = 1]
    /\ Acted
    /\ UNCHANGED <<client, clients, worlds, player_lists, inventories, tick>>

ViewTick(inp) ==
    /\ tick < MaxShortTick
    /\ ServerTick(inp)

NextView ==
    \/ \E w \in WorldIds : ViewRespawn(w)
    \/ \E x \in ClientColumns : ViewMove(x)
    \/ \E d \in ViewDistances : ViewSetViewDistance(d)
    \/ ViewSetSkinParts
    \/ \E p \in BusyCells : ViewInsertChunk(p)
    \/ \E p \in BusyCells : ViewDeleteChunk(p)
    \/ \E p \in BusyCells : ViewModifyChunk(p)
    \/ \E e \in EntityIds, x \in EntityColumns : ViewCreateEntity(e, 1, x)
    \/ \E e \in EntityIds, x \in EntityColumns : ViewMoveEntity(e, x)
    \/ \E e \in EntityIds : ViewDeleteEntity(e)
    \/ \E e \in EntityIds : ViewUpdateEntity(e)
    \/ \E inp \in ViewInputs : ViewTick(inp)

SpecView == InitView /\ [][NextView]_vars

(***************************************************************************)
(* Properties of the view.  They are stated on the steps of the server     *)
(* tick: the unprimed variables are what the update reads, wire' is what   *)
(* it wrote.                                                               *)
(***************************************************************************)
\* the packet named t about the chunk position p is in buf
HasAt(buf, t, p) ==
    \E i \in 1 .. Len(buf) : buf[i].t = t /\ buf[i].a = p

OldDisc == ViewSet(ChunkPosAt(client.old_position), client.old_view_distance)
NewDisc == ViewSet(ChunkPosAt(client.position), client.view_distance)

\* the chunk at p of the client's world exists and was neither created nor
\* deleted this tick
ChunkUntouched(p) ==
    IF WorldsGet(worlds, client.world)
    THEN LET ch == worlds[client.world].chunks[p]
         IN  ch.present /\ ~ch.created_this_tick /\ ~ch.deleted
    ELSE FALSE

\* C6 as stated, read for the ticks after the login: for every tick and every
\* chunk position p in both the old and the new view disc whose chunk was
\* neither created nor deleted this tick, the tick's output holds no ChunkData
\* and no UnloadChunk for p.
C6_Original ==
    [][(IsTick /\ client.send.some /\ ~client.created_this_tick)
          => \A p \in OldDisc \cap NewDisc :
                ChunkUntouched(p)
                   => /\ ~HasAt(wire'.pkts, "ChunkData", p)
                      /\ ~HasAt(wire'.pkts, "UnloadChunk", p)]_vars

\* C6 amended: the same, for the ticks in which the client's world is the
\* world of its previous update (old_world = world); in the tick of a world
\* change, the login included, every chunk of the new view disc is loaded.
C6_ViewOverlapNoReload ==
    [][(IsTick /\ client.send.some /\ client.old_world = client.world)
          => \A p \in OldDisc \cap NewDisc :
                ChunkUntouched(p)
                   => /\ ~HasAt(wire'.pkts, "ChunkData", p)
                      /\ ~HasAt(wire'.pkts, "UnloadChunk", p)]_vars

\* C6 witness: the client walked within its world; the update unloaded and
\* loaded chunks around the overlap of the two discs and left the chunk in the
\* overlap alone
C6_Witness ==
    /\ wire.kind = "flushed"
    /\ ~Has(wire.pkts, "LoginPlay") /\ ~Has(wire.pkts, "Respawn")
    /\ Has(wire.pkts, "SetCenterChunk")
    /\ HasAt(wire.pkts, "UnloadChunk", <<1, 0>>)
    /\ HasAt(wire.pkts, "ChunkData", <<3, 0>>)
    /\ ~HasAt(wire.pkts, "ChunkData", <<2, 0>>)
    /\ ~HasAt(wire.pkts, "UnloadChunk", <<2, 0>>)
    /\ <<2, 0>> \in client.loaded_chunks

\* the entity ids a packet refers to
EntityIdsOf(k) ==
    IF k.t \in {"SpawnEntity", "EntityUpdate"} THEN {k.a[1]}
    ELSE IF k.t = "RemoveEntities" THEN {k.a[i] : i \in 1 .. Len(k.a)}
    ELSE {}

\* C7: no self-echo: in every tick and every view case, no entity-spawn
\* packet, no id of a RemoveEntities packet and no byte of an appended entity
\* update blob refers to the entity sharing the client's uuid.
C7_NoSelfEcho ==
    [][IsTick
          => \A i \in 1 .. Len(wire'.pkts) :
                \A e \in EntityIdsOf(wire'.pkts[i]) :
                   entities[e].uuid # client.uuid]_vars

\* C7 witness: the update loaded the cell holding the client's own entity and
\* another entity, and spawned only the other one
C7_Witness ==
    /\ wire.kind = "flushed"
    /\ client.self_entity = 1 /\ entities[1].exists
    /\ entities[1].world = client.world /\ entities[2].world = client.world
    /\ ChunkPosAt(entities[1].position) \in client.loaded_chunks
    /\ ChunkPosAt(entities[2].position) \in client.loaded_chunks
    /\ Count(wire.pkts, "SpawnEntity") = 1
    /\ \E i \in 1 .. Len(wire.pkts) :
          wire.pkts[i].t = "SpawnEntity" /\ wire.pkts[i].a = <<2>>

\* the packets of the view, and the rank the ordering contract gives them
ViewTypes ==
    {"UnloadChunk", "ChunkData", "BlockChanges", "RemoveEntities",
     "SpawnEntity", "EntityUpdate"}

ContractRank(t) ==
    CASE t = "UnloadChunk" -> 1
      [] t = "ChunkData" -> 2
      [] t = "BlockChanges" -> 3
      [] t = "RemoveEntities" -> 4
      [] t = "SpawnEntity" -> 5
      [] t = "EntityUpdate" -> 6

\* the packet k of the coming update's output concerns the chunk position p:
\* a chunk packet names it, a spawn or an update is about an entity residing
\* in it, a removal batch holds an entity that resides or resided in it
Concerns(k, p) ==
    IF k.t \in {"UnloadChunk", "ChunkData", "BlockChanges"} THEN k.a = p
    ELSE IF k.t \in {"SpawnEntity", "EntityUpdate"}
    THEN ChunkPosAt(entities[k.a[1]].position) = p
    ELSE IF k.t = "RemoveEntities"
    THEN \E e \in EntityIdsOf(k) :
            \/ ChunkPosAt(entities[e].position) = p
            \/ ChunkPosAt(entities[e].old_position) = p
    ELSE FALSE

\* C8 as stated, read for the ticks in which the client stays in its world
\* (so that a position names one chunk and one cell): for any one chunk
\* position touched in a tick's output, the packets concerning it appear in the
\* order Unload, Load, BlockChanges, EntityRemove, EntitySpawn, EntityUpdates,
\* never reversed.
C8_Original ==
    [][(IsTick /\ client.old_world = client.world)
          => \A p \in Grid : \A i, j \in 1 .. Len(wire'.pkts) :
                (/\ i < j
                 /\ Concerns(wire'.pkts[i], p) /\ Concerns(wire'.pkts[j], p))
                   => ContractRank(wire'.pkts[i].t) <= ContractRank(wire'.pkts[j].t)]_vars

\* the types of the packets of buf that satisfy Test
TypesWhere(buf, Test(_)) ==
    TypesOf(SelectSeq(buf, Test))

RECURSIVE InStages(_, _, _, _)
\* whether the sequence of types seq can be cut into consecutive stages,
\* stage n taking types of allowed[n] only and, unless n is in many, one
\* packet at most; from is the set of stages the last packet may have been in
InStages(seq, from, allowed, many) ==
    IF seq = <<>> THEN from # {}
    ELSE InStages(Tail(seq),
                  {n \in 1 .. Len(allowed) :
                      /\ Head(seq) \in allowed[n]
                      /\ \E m \in from : m < n \/ (m = n /\ n \in many)},
                  allowed, many)

\* what the pass over the old view writes about one position: one chunk
\* packet, the spawns of the entities that entered the cell, the cell's updates
OldViewStages ==
    <<{"UnloadChunk", "ChunkData", "BlockChanges"}, {"SpawnEntity"},
      {"EntityUpdate"}>>

\* what the world-change or view-change pass writes about a position that
\* leaves the view, and about one that enters it
LeaveStages == <<{"UnloadChunk"}>>
EnterStages == <<{"ChunkData"}, {"SpawnEntity"}>>

\* the stages of the position p in the coming update: in its world the client
\* sees p leave the view, stay in it, or enter it; on a change of world every
\* position of the old view leaves and every position of the new view enters
PositionStages(p) ==
    IF client.old_world # client.world
    THEN OldViewStages \o LeaveStages \o EnterStages
    ELSE IF p \in OldDisc
    THEN IF p \in NewDisc THEN OldViewStages ELSE OldViewStages \o LeaveStages
    ELSE EnterStages

\* the stages that may hold several packets: spawns and updates
ManyOf(stages) ==
    {n \in 1 .. Len(stages) : stages[n] \in {{"SpawnEntity"}, {"EntityUpdate"}}}

\* what the update writes about the view: the pass over the old view, its
\* removal batch, the unloads of the second pass, its removal batch, its
\* loads and spawns
TickStages ==
    <<{"UnloadChunk", "ChunkData", "BlockChanges", "SpawnEntity", "EntityUpdate"},
      {"RemoveEntities"}, {"UnloadChunk"}, {"RemoveEntities"},
      {"ChunkData", "SpawnEntity"}>>

\* C8 amended: the packets of a tick follow the passes of the update.  For
\* any one chunk position of the old view disc, the chunk, spawn and update
\* packets concerning it appear as: at most one chunk packet (UnloadChunk,
\* ChunkData or BlockChanges), then entity spawns, then entity updates; if
\* the position leaves the view (or the world changes) at most one
\* UnloadChunk follows them.  For a position that enters the view (on a world
\* change: any position of the new disc, after the packets above) at most one
\* ChunkData is followed by entity spawns.  A position gets one UnloadChunk
\* at most.  The removal batches are not per position: at most one
\* RemoveEntities follows the whole pass over the old view, and at most one
\* more follows the unloads of the second pass and precedes its loads.
C8_PassOrder ==
    [][IsTick
          => /\ \A p \in Grid :
                  /\ InStages(TypesWhere(wire'.pkts,
                                 LAMBDA k : k.t # "RemoveEntities" /\ Concerns(k, p)),
                              {0}, PositionStages(p), ManyOf(PositionStages(p)))
                  /\ Cardinality({i \in 1 .. Len(wire'.pkts) :
                        wire'.pkts[i].t = "UnloadChunk" /\ wire'.pkts[i].a = p}) <= 1
             /\ InStages(TypesWhere(wire'.pkts, LAMBDA k : k.t \in ViewTypes),
                         {0}, TickStages, {1, 3, 5})]_vars

\* C8 witness: in one tick an entity was spawned by the pass over the old
\* view, then removed in the batch of the view-change pass, which then loaded
\* chunks
C8_Witness ==
    /\ wire.kind = "flushed"
    /\ ~Has(wire.pkts, "LoginPlay")
    /\ \E i, j, k \in 1 .. Len(wire.pkts) :
          /\ i < j /\ j < k
          /\ wire.pkts[i].t = "SpawnEntity"
          /\ wire.pkts[j].t = "RemoveEntities"
          /\ wire.pkts[k].t = "ChunkData"

(***************************************************************************)
(* SpecInv: the client's inventory: the host replaces slots, the cursor    *)
(* item changes, a window is opened and closed, the open inventory is      *)
(* modified.                                                               *)
(***************************************************************************)
\* the slots and items the host uses
BusySlots == {3, 17, SlotCount - 1}
Items == {0, 1}

\* a client late in a long session: it logged in long ago, its state id is
\* about to wrap and so is its window id
LongSession ==
    [Update(RespawnTo(NewClient, 1),
            [worlds |-> [w \in WorldIds |-> InitWorld(w)],
             entities |-> [e \in EntityIds |-> NoEntity],
             player_lists |-> [id \in PlayerListIds |-> NoPlayerList],
             inventories |-> [i \in InventoryIds |->
                                 [exists |-> TRUE, modified |-> FALSE]],
             tick |-> 0],
            GoodInput).c EXCEPT !.inv_state_id = I32Max - 1,
                                !.window_id = WindowIdCycle - 1]

InitInv ==
    /\ \/ client = NewClient /\ tick = 0
       \/ client = LongSession /\ tick = 1
    /\ worlds = [w \in WorldIds |-> InitWorld(w)]
    /\ entities = [e \in EntityIds |-> NoEntity]
    /\ player_lists = [id \in PlayerListIds |-> NoPlayerList]
    /\ inventories = [i \in InventoryIds |-> [exists |-> TRUE, modified |-> FALSE]]
    /\ clients = NewClients
    /\ wire = NoObservation
    /\ hist = InitHist

InvRespawn(w) ==
    /\ MayAct
    /\ w # client.world
    /\ client' = RespawnTo(client, w)
    /\ Acted
    /\ UNCHANGED <<clients, worlds, entities, player_lists, inventories, tick>>

InvReplaceSlot(idx, item) ==
    /\ MayAct
    /\ client' = ReplaceSlot(client, idx, item)
    /\ client' # client
    /\ Acted
    /\ UNCHANGED <<clients, worlds, entities, player_lists, inventories, tick>>

\* the host's closure replaces every slot of the client's inventory
InvReplaceAllSlots(item) ==
    /\ MayAct
    /\ client' = ReplaceSlots(client, SortedSeq(Slots), item)
    /\ client' # client
    /\ Acted
    /\ UNCHANGED <<clients, worlds, entities, player_lists, inventories, tick>>

\* the call returns the old item, or it panics and the thread of the
\* server loop unwinds: nothing runs after it
InvReplaceCursorItem(item) ==
    /\ MayAct
    /\ client' = IF ReplaceCursorItemPanics(client, item) THEN client
                 ELSE ReplaceCursorItem(client, item)
    /\ hist' = [hist EXCEPT
                   !.acts = @ + 1,
                   !.ret = [op |-> "replace_cursor_item", u |-> 0,
                            args |-> IF ReplaceCursorItemPanics(client, item)
                                     THEN <<item>>
                                     ELSE <<item, client.cursor_item>>,
                            val |-> ~ReplaceCursorItemPanics(client, item)]]
    /\ wire' = NoObservation
    /\ UNCHANGED <<clients, worlds, entities, player_lists, inventories, tick>>

InvCursorItemChanged(item) ==
    /\ MayAct
    /\ client' = CursorItemChanged(client, item)
    /\ client' # client
    /\ Acted
    /\ UNCHANGED <<clients, worlds, entities, player_lists, inventories, tick>>

InvSetOpenInventory(id) ==
    /\ MayAct
    /\ client' = SetOpenInventory(client, id)
    /\ client' # client
    /\ Acted
    /\ UNCHANGED <<clients, worlds, entities, player_lists, inventories, tick>>

\* a slot of the inventory is replaced
InvModifyInventory(i) ==
    /\ MayAct
    /\ inventories[i].exists /\ ~inventories[i].modified
    /\ inventories' = [inventories EXCEPT ![i].modified = TRUE]
    /\ Acted
    /\ UNCHANGED <<client, clients, worlds, entities, player_lists, tick>>

InvTick(inp) ==
    /\ tick < MaxShortTick /\ ~Panicked
    /\ ServerTick(inp)

NextInv ==
    \/ \E w \in {1} : InvRespawn(w)
    \/ \E idx \in BusySlots, item \in Items : InvReplaceSlot(idx, item)
    \/ \E item \in Items : InvReplaceAllSlots(item)
    \/ \E item \in Items : InvReplaceCursorItem(item)
    \/ \E item \in Items : InvCursorItemChanged(item)
    \/ \E id \in {NULL} \cup InventoryIds : InvSetOpenInventory(id)
    \/ \E i \in InventoryIds : InvModifyInventory(i)
    \/ \E inp \in ViewInputs : InvTick(inp)

SpecInv == InitInv /\ [][NextInv]_vars

(***************************************************************************)
(* Properties of the inventory sync.                                       *)
(***************************************************************************)
RECURSIVE WrapAdd(_, _)
\* x + n in the wrapping i32 arithmetic of inv_state_id
WrapAdd(x, n) ==
    IF n = 0 THEN x ELSE WrapAdd(WrapInc(x), n - 1)

\* the coming update sends the whole inventory again
WholeResendDue ==
    client.modified_slots # {} /\ WholeResend(client)

\* the coming update opens a screen
OpenDue ==
    client.open_inventory_modified /\ InventoriesGet(inventories, client.open_inventory)

\* the coming update forwards a change of the inventory that is already open
ForwardDue ==
    /\ ~client.open_inventory_modified
    /\ IF InventoriesGet(inventories, client.open_inventory)
       THEN inventories[client.open_inventory].modified ELSE FALSE

One(b) == IF b THEN 1 ELSE 0

\* the slot packets of the client's own inventory (window 0) in buf, as
\* (slot, state id) pairs
OwnSlotPackets(buf) ==
    {<<buf[i].a[3], buf[i].a[2]>> :
        i \in {j \in 1 .. Len(buf) : buf[j].t = "SetContainerSlot" /\ buf[j].a[1] = 0}}

\* C9 as stated, with the increase read in the wrapping arithmetic of the
\* state id: across one successful update inv_state_id increases by 1 if the
\* whole inventory was sent again, otherwise by popcount(modified_slots) plus
\* 1 if the cursor item was modified plus 1 if a screen was opened.
C9_Original ==
    [][(IsTick /\ wire'.kind = "flushed" /\ ~ForwardDue)
          => LET n == IF WholeResendDue THEN 1
                      ELSE Cardinality(client.modified_slots)
                           + One(client.cursor_item_modified) + One(OpenDue)
             IN  client'.inv_state_id = WrapAdd(client.inv_state_id, n)]_vars

\* C9 amended: across one successful update that does not forward a change
\* of an already open inventory, inv_state_id advances, in wrapping i32
\* arithmetic, by (1 if the whole inventory was sent again, otherwise
\* popcount(modified_slots) plus 1 if the cursor item was modified) plus 1 if
\* a screen was opened; with exactly slots 3 and 17 modified, the cursor
\* unchanged and the client not created this tick, the output holds exactly
\* two SetContainerSlot packets, for slots 3 and 17 of window 0 with
\* consecutive state ids, and inv_state_id advances by 2, or by 3 if a screen
\* was opened in the same tick.
C9_StateIdAccounting ==
    [][(IsTick /\ wire'.kind = "flushed" /\ ~ForwardDue)
          => LET n == (IF WholeResendDue THEN 1
                       ELSE Cardinality(client.modified_slots)
                            + One(client.cursor_item_modified)) + One(OpenDue)
             IN  /\ client'.inv_state_id = WrapAdd(client.inv_state_id, n)
                 /\ client'.modified_slots = {}
                 /\ ~client'.cursor_item_modified
                 /\ (/\ client.modified_slots = {3, 17}
                     /\ ~client.cursor_item_modified
                     /\ ~client.created_this_tick)
                       => /\ Count(wire'.pkts, "SetContainerSlot") = 2
                          /\ OwnSlotPackets(wire'.pkts)
                                = {<<3, client.inv_state_id>>,
                                   <<17, WrapInc(client.inv_state_id)>>}
                          /\ n = 2 + One(OpenDue)]_vars

\* C9 witness: an update of a client that was not new sent slots 3 and 17,
\* and nothing else of the inventory, and the state id advanced by 2
C9_Witness ==
    /\ wire.kind = "flushed"
    /\ ~Has(wire.pkts, "LoginPlay")
    /\ Count(wire.pkts, "SetContainerSlot") = 2
    /\ OwnSlotPackets(wire.pkts) = {<<3, 0>>, <<17, 1>>}
    /\ ~Has(wire.pkts, "OpenScreen")
    /\ client.inv_state_id = 2

(***************************************************************************)
(* SpecPL: the host mutates the player lists between ticks; every tick     *)
(* runs update_caches, the client's update and clear_removed.              *)
(***************************************************************************)
Usernames == {1, 2}
GameModes == {0, 1}
Pings == {0, 1}
Texts == {EmptyText, 1}

InitPL ==
    /\ client = NewClient
    /\ worlds = [w \in WorldIds |-> InitWorld(w)]
    /\ entities = [e \in EntityIds |-> NoEntity]
    /\ \E pl \in {NewPlayerList, OneEntryList} :
          player_lists = [id \in PlayerListIds |-> IF id = 1 THEN pl ELSE NoPlayerList]
    /\ inventories = [i \in InventoryIds |-> [exists |-> FALSE, modified |-> FALSE]]
    /\ tick = 0
    /\ clients = NewClients
    /\ wire = NoObservation
    /\ hist = InitHist

\* the host mutates player lists a bounded number of times
PLMayAct ==
    hist.acts < MaxActs /\ tick < MaxShortTick

\* the uuids that the mutation of list id from old to new inserted and that
\* were not in the list before, in this tick or at its start
FreshlyInserted(id, old, new) ==
    {<<id, u>> : u \in {v \in Uuids : /\ ~old.entries[v].present
                                       /\ v \notin old.removed
                                       /\ new.entries[v].present}}

\* the player list id becomes pl, by an entry, header or footer mutation
Mutated(id, pl) ==
    /\ player_lists[id].exists
    /\ pl # player_lists[id]
    /\ player_lists' = [player_lists EXCEPT ![id] = pl]
    /\ hist' = [hist EXCEPT !.acts = @ + 1, !.pl_mutated = TRUE,
                            !.muts = @ + 1,
                            !.ins = @ \cup FreshlyInserted(id, player_lists[id], pl)]
    /\ wire' = NoObservation
    /\ UNCHANGED <<client, clients, worlds, entities, inventories, tick>>

PLMutated(id, pl) ==
    PLMayAct /\ Mutated(id, pl)

PLInsert(id, u, username, game_mode) ==
    PLMutated(id, PlayerListInsert(player_lists[id], u, username, 0, game_mode, 0,
                                   EmptyText))

PLRemove(id, u) ==
    PLMutated(id, PlayerListRemove(player_lists[id], u))

PLClear(id) ==
    PLMutated(id, PlayerListClear(player_lists[id]))

PLSetHeader(id, header) ==
    PLMutated(id, SetHeader(player_lists[id], header))

PLSetFooter(id, footer) ==
    PLMutated(id, SetFooter(player_lists[id], footer))

\* entry_mut(u) and one of the entry's setters
PLSetGameMode(id, u, game_mode) ==
    /\ player_lists[id].entries[u].present
    /\ PLMutated(id, [player_lists[id] EXCEPT !.entries[u] =
                        EntrySetGameMode(@, game_mode)])

PLSetPing(id, u, ping) ==
    /\ player_lists[id].entries[u].present
    /\ PLMutated(id, [player_lists[id] EXCEPT !.entries[u] = EntrySetPing(@, ping)])

PLSetDisplayName(id, u, display_name) ==
    /\ player_lists[id].entries[u].present
    /\ PLMutated(id, [player_lists[id] EXCEPT !.entries[u] =
                        EntrySetDisplayName(@, display_name)])

\* the host binds the client to a player list, or to none
PLSetPlayerList(id) ==
    /\ PLMayAct
    /\ client.send.some
    /\ IF id = NoList THEN TRUE ELSE player_lists[id].exists
    /\ client' = SetPlayerList(client, id)
    /\ client' # client
    /\ Acted
    /\ UNCHANGED <<clients, worlds, entities, player_lists, inventories, tick>>

PLTick(inp) ==
    /\ tick < MaxShortTick
    /\ ServerTick(inp)

NextPL ==
    \/ \E id \in PlayerListIds, u \in Uuids, n \in Usernames, g \in GameModes :
          PLInsert(id, u, n, g)
    \/ \E id \in PlayerListIds, u \in Uuids : PLRemove(id, u)
    \/ \E id \in PlayerListIds : PLClear(id)
    \/ \E id \in PlayerListIds, t \in Texts : PLSetHeader(id, t)
    \/ \E id \in PlayerListIds, t \in Texts : PLSetFooter(id, t)
    \/ \E id \in PlayerListIds, u \in Uuids, g \in GameModes : PLSetGameMode(id, u, g)
    \/ \E id \in PlayerListIds, u \in Uuids, p \in Pings : PLSetPing(id, u, p)
    \/ \E id \in PlayerListIds, u \in Uuids, t \in Texts : PLSetDisplayName(id, u, t)
    \/ \E id \in {NoList} \cup PlayerListIds : PLSetPlayerList(id)
    \/ \E inp \in ViewInputs : PLTick(inp)

SpecPL == InitPL /\ [][NextPL]_vars

(***************************************************************************)
(* Properties of the player-list cache.                                    *)
(***************************************************************************)
\* C10: a tick before which the host made no entry, header or footer
\* mutation since the previous tick leaves every player list with a cached
\* update blob that holds no packets; so do two such ticks in a row.
C10_QuietTickEmptyBlob ==
    [][(IsTick /\ ~hist.pl_mutated)
          => \A id \in PlayerListIds :
                player_lists[id].exists
                   => /\ player_lists'[id].cached_update_packets = <<>>
                      /\ player_lists'[id].removed = {}]_vars

\* C10 witness: a player list the host mutated (its header is set and it has
\* an entry) went through two ticks in a row without a mutation, and its
\* cached update blob is empty
C10_Witness ==
    /\ hist.quiet = 2
    /\ \E id \in PlayerListIds :
          /\ player_lists[id].exists
          /\ player_lists[id].header # EmptyText
          /\ Keys(player_lists[id]) = Uuids
          /\ player_lists[id].cached_update_packets = <<>>

\* the uuids named by the packets of type t in buf: RemovePlayer lists uuids,
\* the other player-info packets list records that start with the uuid
UuidsIn(buf, t) ==
    UNION {{IF t = "RemovePlayer" THEN buf[i].a[j] ELSE buf[i].a[j][1] :
                j \in 1 .. Len(buf[i].a)} :
           i \in {k \in 1 .. Len(buf) : buf[k].t = t}}

\* C11: if a uuid that was not in a player list is inserted and then removed
\* within one tick, the cached update blob of the tick's update_caches holds
\* no AddPlayer record for the uuid and holds a RemovePlayer naming it.
C11_RoundTripRemoval ==
    [][IsTick
          => \A id \in PlayerListIds, u \in Uuids :
                (/\ player_lists[id].exists
                 /\ <<id, u>> \in hist.ins
                 /\ ~player_lists[id].entries[u].present)
                   => /\ u \notin UuidsIn(player_lists'[id].cached_update_packets,
                                          "AddPlayer")
                      /\ u \in UuidsIn(player_lists'[id].cached_update_packets,
                                       "RemovePlayer")]_vars

\* C11 witness: uuid 1, which no list holds at the start, was inserted and
\* removed before the first tick ended; the blob of that tick names it in a
\* RemovePlayer and holds no AddPlayer
C11_Witness ==
    /\ tick = 1
    /\ ~player_lists[1].entries[1].present
    /\ 1 \in UuidsIn(player_lists[1].cached_update_packets, "RemovePlayer")
    /\ ~Has(player_lists[1].cached_update_packets, "AddPlayer")

(***************************************************************************)
(* SpecTwo: two clients in their steady state share a player list that the *)
(* host mutates between ticks.                                             *)
(***************************************************************************)
\* a client that logged in two ticks ago: its first update logged it in and
\* its second one made player list 1 its old player list
SteadyClient(uuid) ==
    LET env(t) == [worlds |-> [w \in WorldIds |-> InitWorld(w)],
                   entities |-> [e \in EntityIds |-> NoEntity],
                   player_lists |-> [id \in PlayerListIds |->
                                        IF id = 1 THEN NewPlayerList
                                        ELSE NoPlayerList],
                   inventories |-> [i \in InventoryIds |->
                                       [exists |-> FALSE, modified |-> FALSE]],
                   tick |-> t]
    IN  Update(Update(SetPlayerList(RespawnTo([NewClient EXCEPT !.uuid = uuid], 1), 1),
                      env(0), GoodInput).c,
               env(1), GoodInput).c

InitTwo ==
    /\ client = SteadyClient(1)
    /\ clients = ClientsInsert(NewClients, SteadyClient(2)).cs
    /\ worlds = [w \in WorldIds |-> InitWorld(w)]
    /\ entities = [e \in EntityIds |-> NoEntity]
    /\ \E pl \in {NewPlayerList, OneEntryList} :
          player_lists = [id \in PlayerListIds |-> IF id = 1 THEN pl ELSE NoPlayerList]
    /\ inventories = [i \in InventoryIds |-> [exists |-> FALSE, modified |-> FALSE]]
    /\ tick = 2
    /\ wire = NoObservation
    /\ hist = InitHist

\* the other client that refers to the player list
Peer ==
    clients.slots[1].val

TwoMayAct ==
    hist.acts < MaxActs /\ tick < 2 + MaxShortTick

TwoInsert(id, u, username, game_mode) ==
    /\ TwoMayAct
    /\ Mutated(id, PlayerListInsert(player_lists[id], u, username, 0, game_mode, 0,
                                    EmptyText))

TwoRemove(id, u) ==
    TwoMayAct /\ Mutated(id, PlayerListRemove(player_lists[id], u))

TwoClear(id) ==
    TwoMayAct /\ Mutated(id, PlayerListClear(player_lists[id]))

TwoSetHeader(id, header) ==
    TwoMayAct /\ Mutated(id, SetHeader(player_lists[id], header))

TwoTick(inp) ==
    /\ tick < 2 + MaxShortTick
    /\ ServerTick(inp)

NextTwo ==
    \/ \E u \in Uuids, n \in Usernames, g \in GameModes : TwoInsert(1, u, n, g)
    \/ \E u \in Uuids : TwoRemove(1, u)
    \/ TwoClear(1)
    \/ \E t \in Texts : TwoSetHeader(1, t)
    \/ \E inp \in ViewInputs : TwoTick(inp)

SpecTwo == InitTwo /\ [][NextTwo]_vars

(***************************************************************************)
(* Properties of the player list as the clients see it.                    *)
(***************************************************************************)
PlayerListTypes ==
    {"AddPlayer", "RemovePlayer", "UpdateGameMode", "UpdateLatency",
     "UpdateDisplayName", "SetTabListHeaderAndFooter"}

\* the player-list packets of buf, in order
PlayerListStream(buf) ==
    SelectSeq(buf, LAMBDA k : k.t \in PlayerListTypes)

\* the client c takes the steady-state branch for the player list id
SteadyOn(c, id) ==
    /\ c.send.some /\ ~c.created_this_tick
    /\ c.player_list = id /\ c.old_player_list = id

\* the streams of the clients that were steady on the list id before the
\* tick that has just run and whose update succeeded
SteadyStreams(id) ==
    {PlayerListStream(wire'.pkts) : x \in {y \in {1} :
         SteadyOn(client, id) /\ wire'.kind = "flushed"}}
    \cup {PlayerListStream(clients'.slots[i].val.obs.pkts) :
            i \in {j \in ClientSlots :
                     /\ clients.slots[j].full
                     /\ SteadyOn(clients.slots[j].val.c, id)
                     /\ clients'.slots[j].val.obs.kind = "flushed"}}

\* C12: for a player list that steady-state clients refer to: if the only
\* mutation of tick t is the insertion of an entry U that was not in the
\* list, the tick-t stream of each client contains AddPlayer[U]; if the only
\* mutation of tick t+1 is the removal of U, the tick-(t+1) stream of each
\* contains RemovePlayer[U]; if tick t+2 has no mutation, the player-list
\* part of its stream is empty.
C12_InsertRemoveStory ==
    [][IsTick
          => LET st == NextStory(hist, player_lists)
             IN  \A ps \in SteadyStreams(st.id) :
                    /\ st.stage = 1 => st.u \in UuidsIn(ps, "AddPlayer")
                    /\ st.stage = 2 => /\ st.u \in UuidsIn(ps, "RemovePlayer")
                                       /\ st.u \notin UuidsIn(ps, "AddPlayer")
                    /\ st.stage = 3 => ps = <<>>]_vars

\* C12 witness: the story ran to its end with both clients steady on the
\* list and both updates of the third tick successful
C12_Witness ==
    /\ hist.story.stage = 3
    /\ wire.kind = "flushed" /\ Peer.obs.kind = "flushed"
    /\ SteadyOn(client, hist.story.id) /\ SteadyOn(Peer.c, hist.story.id)
    /\ PlayerListStream(wire.pkts) = <<>>
    /\ PlayerListStream(Peer.obs.pkts) = <<>>

(***************************************************************************)
(* SpecTele: the host teleports a client, the client confirms, ticks flush *)
(* the sink.                                                               *)
(***************************************************************************)
\* a client late in a long session whose teleport id counter is u32::MAX
WrappingTeleports ==
    [LongSession EXCEPT !.teleport_id_counter = -1]

InitTele ==
    /\ \/ client = RespawnTo(NewClient, 1) /\ tick = 0
       \/ client = WrappingTeleports /\ tick = 1
    /\ clients = NewClients
    /\ worlds = [w \in WorldIds |-> InitWorld(w)]
    /\ entities = [e \in EntityIds |-> NoEntity]
    /\ player_lists = [id \in PlayerListIds |-> NoPlayerList]
    /\ inventories = [i \in InventoryIds |-> [exists |-> TRUE, modified |-> FALSE]]
    /\ wire = NoObservation
    /\ hist = InitHist

TeleMayAct ==
    hist.acts < MaxActs + 1 /\ tick < MaxShortTick

\* the ids of the SynchronizePlayerPosition packets that the step put into
\* the sink of the client
NewlyEmitted ==
    IF client'.send.some /\ client.send.some
       /\ Len(client'.send.buf) = Len(client.send.buf) + 1
    THEN LET k == client'.send.buf[Len(client'.send.buf)]
         IN  IF k.t = "SynchronizePlayerPosition" THEN <<k.a[1]>> ELSE <<>>
    ELSE <<>>

TeleTeleport(x, encodes) ==
    /\ TeleMayAct /\ Len(client.send.buf) < MaxQueued + 1
    /\ client' = Teleport(client, BlockPos(x), encodes)
    /\ hist' = [hist EXCEPT !.acts = @ + 1, !.tp_ids = @ \o NewlyEmitted]
    /\ wire' = NoObservation
    /\ UNCHANGED <<clients, worlds, entities, player_lists, inventories, tick>>

\* the client confirms the oldest teleport it has not confirmed yet
TeleConfirm ==
    /\ TeleMayAct
    /\ client.send.some
    /\ hist.tp_acked < Len(hist.tp_ids)
    /\ client' = NextEventConfirmTeleport(client)
    /\ hist' = [hist EXCEPT !.acts = @ + 1, !.tp_acked = @ + 1]
    /\ wire' = NoObservation
    /\ UNCHANGED <<clients, worlds, entities, player_lists, inventories, tick>>

TeleMove(x) ==
    /\ TeleMayAct
    /\ client.send.some
    /\ client' = NextEventMove(client, BlockPos(x))
    /\ client' # client
    /\ Acted
    /\ UNCHANGED <<clients, worlds, entities, player_lists, inventories, tick>>

TeleDisconnect ==
    /\ TeleMayAct
    /\ client.send.some
    /\ client' = DisconnectAbrupt(client)
    /\ Acted
    /\ UNCHANGED <<clients, worlds, entities, player_lists, inventories, tick>>

TeleTick(inp) ==
    /\ tick < MaxShortTick
    /\ ServerTick(inp)

NextTele ==
    \/ \E x \in ClientColumns, b \in BOOLEAN : TeleTeleport(x, b)
    \/ TeleConfirm
    \/ \E x \in ClientColumns : TeleMove(x)
    \/ TeleDisconnect
    \/ \E inp \in ViewInputs : TeleTick(inp)

SpecTele == InitTele /\ [][NextTele]_vars

(***************************************************************************)
(* Properties of the teleport bookkeeping.                                 *)
(***************************************************************************)
\* every emitted teleport id is the one before it plus 1, modulo 2^32
FreshIds ==
    \A i \in 1 .. Len(hist.tp_ids) - 1 :
        hist.tp_ids[i + 1] = WrapInc(hist.tp_ids[i])

\* the teleport ids emitted and not confirmed yet
Outstanding ==
    Len(hist.tp_ids) - hist.tp_acked

\* C13 as stated: the emitted teleport ids are strictly increasing modulo
\* 2^32 and pending_teleports equals the number of teleport ids emitted and
\* not yet acknowledged.
C13_Original ==
    FreshIds /\ client.pending_teleports = Outstanding

\* C13 amended: the emitted teleport ids are strictly increasing modulo
\* 2^32, and as long as the client is connected pending_teleports equals the
\* number of teleport ids emitted and not yet acknowledged; a teleport() on
\* a client without a sink, or one whose packet fails to encode, emits
\* nothing and still advances pending_teleports and the id counter.
C13_TeleportMonotonic ==
    /\ FreshIds
    /\ client.send.some => client.pending_teleports = Outstanding
    /\ client.pending_teleports >= Outstanding

\* C13 witness: the ids wrapped from u32::MAX to 0 over three teleports of
\* which the client confirmed one
C13_Witness ==
    /\ Len(hist.tp_ids) = 3
    /\ hist.tp_ids[1] = -1 /\ hist.tp_ids[2] = 0
    /\ hist.tp_acked = 1
    /\ client.send.some
    /\ client.pending_teleports = 2

(***************************************************************************)
(* SpecHandles: the host creates player lists, clones and drops its        *)
(* handles and hands them to the client.                                   *)
(***************************************************************************)
InitHandles ==
    /\ client = RespawnTo(NewClient, 1)
    /\ clients = NewClients
    /\ worlds = [w \in WorldIds |-> InitWorld(w)]
    /\ entities = [e \in EntityIds |-> NoEntity]
    /\ player_lists = [id \in PlayerListIds |-> NoPlayerList]
    /\ inventories = [i \in InventoryIds |-> [exists |-> FALSE, modified |-> FALSE]]
    /\ tick = 0
    /\ wire = NoObservation
    /\ hist = [InitHist EXCEPT !.host_handles = [id \in PlayerListIds |-> 0]]

HandlesMayAct ==
    hist.acts < MaxActs + 2 /\ tick < MaxShortTick

\* PlayerLists::insert: the list goes into a free slot and the host gets the
\* handle
HandlesInsert(id) ==
    /\ HandlesMayAct
    /\ ~player_lists[id].exists
    /\ \A j \in PlayerListIds : j < id => player_lists[j].exists
    /\ player_lists' = [player_lists EXCEPT ![id] = NewPlayerList]
    /\ hist' = [hist EXCEPT !.acts = @ + 1, !.host_handles[id] = 1]
    /\ wire' = NoObservation
    /\ UNCHANGED <<client, clients, worlds, entities, inventories, tick>>

\* PlayerListId::clone by the host
HandlesClone(id) ==
    /\ HandlesMayAct
    /\ hist.host_handles[id] = 1
    /\ hist' = [hist EXCEPT !.acts = @ + 1, !.host_handles[id] = @ + 1]
    /\ wire' = NoObservation
    /\ UNCHANGED <<client, clients, worlds, entities, player_lists, inventories, tick>>

\* the host drops one of its handles
HandlesDrop(id) ==
    /\ HandlesMayAct
    /\ hist.host_handles[id] > 0
    /\ hist' = [hist EXCEPT !.acts = @ + 1, !.host_handles[id] = @ - 1]
    /\ wire' = NoObservation
    /\ UNCHANGED <<client, clients, worlds, entities, player_lists, inventories, tick>>

\* Client::set_player_list: the host gives one of its handles (or None) to the
\* client and gets the client's previous handle back
HandlesSetPlayerList(id) ==
    /\ HandlesMayAct
    /\ id # client.player_list
    /\ IF id = NoList THEN TRUE ELSE hist.host_handles[id] > 0
    /\ client' = SetPlayerList(client, id)
    /\ hist' = [hist EXCEPT
                  !.acts = @ + 1,
                  !.host_handles =
                      [j \in PlayerListIds |->
                          @[j] - (IF j = id THEN 1 ELSE 0)
                               + (IF j = client.player_list THEN 1 ELSE 0)]]
    /\ wire' = NoObservation
    /\ UNCHANGED <<clients, worlds, entities, player_lists, inventories, tick>>

\* the connection is lost: the client stays in the store with its handles
HandlesDisconnect ==
    /\ HandlesMayAct
    /\ client.send.some
    /\ client' = DisconnectAbrupt(client)
    /\ Acted
    /\ UNCHANGED <<clients, worlds, entities, player_lists, inventories, tick>>

HandlesTick(inp) ==
    /\ tick < MaxShortTick
    /\ ServerTick(inp)

NextHandles ==
    \/ \E id \in PlayerListIds : HandlesInsert(id)
    \/ \E id \in PlayerListIds : HandlesClone(id)
    \/ \E id \in PlayerListIds : HandlesDrop(id)
    \/ \E id \in {NoList} \cup PlayerListIds : HandlesSetPlayerList(id)
    \/ HandlesDisconnect
    \/ \E inp \in ViewInputs : HandlesTick(inp)

SpecHandles == InitHandles /\ [][NextHandles]_vars

(***************************************************************************)
(* Properties of the player-list handles.                                  *)
(***************************************************************************)
\* the handles to the list id that are outstanding
Handles(id) ==
    hist.host_handles[id]
    + HeldBy(client, id)
    + Cardinality({<<i, f>> \in ClientSlots \X {"player_list", "old_player_list"} :
                     clients.slots[i].full /\ clients.slots[i].val.c[f] = id})

\* every handle that is outstanding resolves to a live list
LookupsResolve ==
    \A id \in PlayerListIds : Handles(id) > 0 => player_lists[id].exists

InitSlab ==
    /\ client = RespawnTo(NewClient, 1)
    /\ clients = NewClients
    /\ worlds = [w \in WorldIds |-> InitWorld(w)]
    /\ entities = [e \in EntityIds |-> NoEntity]
    /\ player_lists = [id \in PlayerListIds |-> NoPlayerList]
    /\ inventories = [i \in InventoryIds |-> [exists |-> FALSE, modified |-> FALSE]]
    /\ tick = 0
    /\ wire = NoObservation
    /\ hist = InitHist

SlabMayAct ==
    hist.acts < MaxActs + 2 /\ tick < MaxShortTick

\* the store changes to cs; gone are the ids whose clients the call deleted
SlabBecomes(cs, gone) ==
    /\ clients' = cs
    /\ hist' = [hist EXCEPT !.acts = @ + 1, !.dead = @ \cup gone]
    /\ wire' = NoObservation
    /\ UNCHANGED <<client, worlds, entities, player_lists, inventories, tick>>

\* a client joins: the server inserts it; w is the world the host puts it in
SlabInsert(w) ==
    /\ SlabMayAct
    /\ VacantSlots(clients) # {}
    /\ SlabBecomes(ClientsInsert(clients, RespawnTo(NewClient, w)).cs, {})

\* the host calls remove with an id it got at some time, or with NULL
SlabRemove(id) ==
    /\ SlabMayAct
    /\ SlabBecomes(ClientsRemove(clients, id).cs,
                   IF ClientsRemove(clients, id).some THEN {id} ELSE {})

\* the host drops the disconnected clients
SlabRetainConnected ==
    /\ SlabMayAct
    /\ \E i \in ClientSlots : clients.slots[i].full /\ IsDisconnected(clients.slots[i].val.c)
    /\ SlabBecomes(ClientsRetain(clients, LAMBDA id, c : ~IsDisconnected(c)),
                   {id \in ClientIdsOf(clients) :
                       IsDisconnected(clients.slots[id.index].val.c)})

\* the host drops every client
SlabRetainNone ==
    /\ SlabMayAct
    /\ ClientIdsOf(clients) # {}
    /\ SlabBecomes(ClientsRetain(clients, LAMBDA id, c : FALSE), ClientIdsOf(clients))

SlabTick(inp) ==
    /\ tick < MaxShortTick
    /\ ServerTick(inp)

NextSlab ==
    \/ \E w \in {NULL, 1} : SlabInsert(w)
    \/ \E id \in ClientIdsOf(clients) \cup hist.dead \cup {ClientIdNull} : SlabRemove(id)
    \/ SlabRetainConnected
    \/ SlabRetainNone
    \/ \E inp \in ViewInputs : SlabTick(inp)

SpecSlab == InitSlab /\ [][NextSlab]_vars

(***************************************************************************)
(* Properties of the client ids.                                           *)
(***************************************************************************)
\* C15: an id whose client was deleted by remove or retain never resolves
\* again, also after its slot is used again; ClientId::NULL never resolves;
\* remove on an id that does not resolve returns None and changes nothing.
C15_NeverRevived ==
    /\ \A id \in hist.dead \cup {ClientIdNull} :
          /\ ~ClientsGet(clients, id)
          /\ ClientsRemove(clients, id) = [cs |-> clients, some |-> FALSE]
    /\ \A id \in ClientIdsOf(clients) : ClientsGet(clients, id)

\* C15 witness: both slots are in use again after their first clients were
\* deleted, one by remove and then one more by retain
C15_Witness ==
    /\ \A i \in {1, 2} :
          /\ clients.slots[i].full
          /\ \E id \in hist.dead : id.index = i /\ id.version < clients.slots[i].version
    /\ Cardinality(hist.dead) >= 2

(***************************************************************************)
(* Scenarios of the view (spec.md 8, S1..S3), on the steps of SpecView.    *)
(***************************************************************************)
\* the positions ChunkPos::try_for_each_in_view visits around center, with or
\* without a cell
ViewDisc(center, d) ==
    {p \in ((center[1] - d) .. (center[1] + d)) \X ((center[2] - d) .. (center[2] + d)) :
        IsInView(center, p, d)}

\* the packets of buf whose names are in types, in their order
Project(buf, types) ==
    SelectSeq(buf, LAMBDA k : k.t \in types)

\* the chunk of world w at p exists and is not deleted
ChunkLive(w, p) ==
    worlds[w].chunks[p].present /\ ~worlds[w].chunks[p].deleted

\* one packet named t for each position of seq whose chunk satisfies Test
ChunkPackets(t, seq, Test(_)) ==
    LET ps == SelectSeq(seq, Test)
    IN  [i \in 1 .. Len(ps) |-> Pkt(t, ps[i])]

LoginTypes == {"LoginPlay", "SetCenterChunk", "ChunkData", "SetEntityMetadata"}

\* what the login update of the coming tick loads and the metadata it sends
LoginLoads ==
    ChunkPackets("ChunkData", ViewSeq(ChunkPosAt(client.position), client.view_distance),
                 LAMBDA p : ChunkLive(client.world, p))
       \o (IF client.player_data_dirty THEN <<Pkt("SetEntityMetadata", <<0>>)>> ELSE <<>>)

\* the update of the coming tick is the first of a client bound to a valid
\* world, and it flushes
LoginTick ==
    /\ IsTick /\ client.send.some /\ client.created_this_tick
    /\ WorldBound /\ client.player_list = NoList
    /\ wire'.kind = "flushed"

CountAt(buf, t, p) ==
    Cardinality({i \in 1 .. Len(buf) : buf[i].t = t /\ buf[i].a = p})

\* the coming update is that of a client that is not new, stays in its valid
\* world and changed its chunk position, and it flushes
WalkTick ==
    /\ IsTick /\ client.send.some /\ ~client.created_this_tick
    /\ WorldBound /\ client.old_world = client.world
    /\ ChunkPosAt(client.old_position) # ChunkPosAt(client.position)
    /\ wire'.kind = "flushed"

OverwrittenAndDeleted(p) ==
    /\ worlds[client.world].chunks[p].created_this_tick
    /\ worlds[client.world].chunks[p].deleted

RespawnTypes == {"Respawn", "UnloadChunk", "ChunkData"}

\* the coming update is that of a client that is not new and was respawned
\* into a valid world other than that of its last update, and it flushes
RespawnTick ==
    /\ IsTick /\ client.send.some /\ ~client.created_this_tick
    /\ WorldBound /\ client.respawn /\ client.old_world # client.world
    /\ WorldsGet(worlds, client.old_world)
    /\ wire'.kind = "flushed"

\* the unloads of the old world and the loads of the new one
LeaveAndEnter ==
    ChunkPackets("UnloadChunk",
                 ViewSeq(ChunkPosAt(client.old_position), client.old_view_distance),
                 LAMBDA p : ChunkLive(client.old_world, p))
       \o ChunkPackets("ChunkData",
                       ViewSeq(ChunkPosAt(client.position), client.view_distance),
                       LAMBDA p : ChunkLive(client.world, p))

\* what the pass over the old disc of the old world writes about chunks: the
\* load of a chunk created this tick, the unload of one deleted this tick
OldPassChunks ==
    LET chunks == worlds[client.old_world].chunks
        ps == SelectSeq(ViewSeq(ChunkPosAt(client.old_position), client.old_view_distance),
                        LAMBDA p : /\ chunks[p].present
                                   /\ chunks[p].created_this_tick # chunks[p].deleted)
    IN  [i \in 1 .. Len(ps) |->
            Pkt(IF chunks[ps[i]].deleted THEN "UnloadChunk" ELSE "ChunkData", ps[i])]

\* C18 as stated: in a tick where a client that is not new was respawned into
\* a world W2 other than its previous one, the output begins with Respawn for
\* W2's dimension, followed by an UnloadChunk for every chunk of the old disc
\* of the old world that is not deleted, followed by the chunk data of every
\* chunk of the new disc of W2 that is not deleted; every unload of the old
\* world precedes every load of the new one.
C18_Original ==
    [][RespawnTick
          => /\ wire'.pkts[1] = RespawnPacket(client, [worlds |-> worlds])
             /\ Project(wire'.pkts, RespawnTypes)
                   = <<RespawnPacket(client, [worlds |-> worlds])>> \o LeaveAndEnter]_vars

\* C18 amended: the output holds one Respawn for W2's dimension, preceded
\* only by SetRenderDistance (when the view distance changed too); after it
\* the pass over the old disc of the old world loads the chunks created this
\* tick and unloads those deleted this tick, then come an UnloadChunk for
\* every chunk of that disc that is not deleted and then the chunk data of
\* every chunk of the new disc of W2 that is not deleted.
C18_RespawnScenario ==
    [][RespawnTick
          => /\ wire'.pkts[IF client.view_distance # client.old_view_distance THEN 2 ELSE 1]
                   = RespawnPacket(client, [worlds |-> worlds])
             /\ wire'.pkts[1].t \in {"Respawn", "SetRenderDistance"}
             /\ Project(wire'.pkts, RespawnTypes)
                   = <<RespawnPacket(client, [worlds |-> worlds])>>
                     \o OldPassChunks \o LeaveAndEnter]_vars

\* C18 witness: the client went from world 1 to world 2 in a tick in which a
\* chunk of its old disc was created: Respawn, the load of that chunk, the
\* unloads of the old disc, that chunk included, and the loads of the new disc
C18_Witness ==
    /\ wire.kind = "flushed" /\ client.world = 2
    /\ TypesOf(Project(wire.pkts, RespawnTypes))
          = <<"Respawn", "ChunkData", "UnloadChunk", "UnloadChunk", "UnloadChunk",
              "ChunkData", "ChunkData", "ChunkData">>

(***************************************************************************)
(* The player-list cache within a tick, on the steps of SpecTwo.           *)
(***************************************************************************)
\* C19: within a tick the cache of a player list is refreshed once, before
\* the clients' updates, and its removed set is cleared after them: every
\* client that is steady on the list and whose update succeeds gets, as the
\* player-list part of its output, the packets update_caches made of the
\* list as the host left it (its removals included), so all of them get the
\* same; after the tick the cache still holds these packets and the removed
\* set is empty.
C19_SharedBlob ==
    [][IsTick
          => \A id \in {i \in PlayerListIds : player_lists[i].exists} :
                /\ \A ps \in SteadyStreams(id) : ps = CachePackets(player_lists[id])
                /\ player_lists'[id].exists
                      => /\ player_lists'[id].cached_update_packets
                               = CachePackets(player_lists[id])
                         /\ player_lists'[id].removed = {}]_vars

\* C19 witness: a tick in which an entry was removed and another inserted:
\* both steady clients got the same packets, the removal and the addition
C19_Witness ==
    /\ wire.kind = "flushed" /\ Peer.obs.kind = "flushed"
    /\ SteadyOn(client, 1) /\ SteadyOn(Peer.c, 1)
    /\ PlayerListStream(wire.pkts) = PlayerListStream(Peer.obs.pkts)
    /\ TypesOf(PlayerListStream(wire.pkts)) = <<"RemovePlayer", "AddPlayer">>
    /\ player_lists[1].removed = {}

(***************************************************************************)
(* SpecPar: the update phase of a tick, one client's update at a time in   *)
(* any order (Clients::par_iter_mut), after the host logic and             *)
(* update_caches and before clear_removed and the end-of-tick sweep.       *)
(***************************************************************************)
InitPar ==
    /\ client = NewClient
    /\ clients = ClientsInsert(ClientsInsert(NewClients, SteadyClient(1)).cs,
                               SteadyClient(2)).cs
    /\ worlds = [w \in WorldIds |-> InitWorld(w)]
    /\ entities = [e \in EntityIds |-> NoEntity]
    /\ player_lists = [id \in PlayerListIds |->
                          IF id = 1 THEN NewPlayerList ELSE NoPlayerList]
    /\ inventories = [i \in InventoryIds |-> [exists |-> TRUE, modified |-> FALSE]]
    /\ tick = 2
    /\ wire = NoObservation
    /\ hist = InitHist

\* the host logic runs between the update phases, a bounded number of times
ParMayAct ==
    ~hist.par.updating /\ hist.acts < MaxActs /\ tick < 2 + MaxShortTick

\* the host opens the inventory id for the client in slot i
ParSetOpenInventory(i, id) ==
    /\ ParMayAct
    /\ clients.slots[i].full
    /\ clients.slots[i].val.c.open_inventory # id
    /\ clients' = [clients EXCEPT !.slots[i].val.c = SetOpenInventory(@, id)]
    /\ hist' = [hist EXCEPT !.acts = @ + 1]
    /\ UNCHANGED <<client, worlds, entities, player_lists, inventories, tick, wire>>

\* a slot of the inventory is replaced
ParModifyInventory(i) ==
    /\ ParMayAct
    /\ inventories[i].exists /\ ~inventories[i].modified
    /\ inventories' = [inventories EXCEPT ![i].modified = TRUE]
    /\ hist' = [hist EXCEPT !.acts = @ + 1]
    /\ UNCHANGED <<client, clients, worlds, entities, player_lists, tick, wire>>

ParInsert(id, u) ==
    /\ ParMayAct
    /\ Mutated(id, PlayerListInsert(player_lists[id], u, 1, 0, 0, 0, EmptyText))

\* the update phase begins: update_caches ran, every client is to be updated
ParBegin ==
    /\ ~hist.par.updating /\ tick < 2 + MaxShortTick
    /\ player_lists' = UpdateCaches(player_lists)
    /\ hist' = [hist EXCEPT !.par = [updating |-> TRUE,
                                     pending |-> {i \in ClientSlots : clients.slots[i].full},
                                     clients |-> clients,
                                     env |-> Env(UpdateCaches(player_lists))]]
    /\ UNCHANGED <<client, clients, worlds, entities, inventories, tick, wire>>

\* the shared stores become those of sh
SharedBecomes(sh) ==
    /\ worlds' = sh.worlds
    /\ entities' = sh.entities
    /\ player_lists' = sh.player_lists
    /\ inventories' = sh.inventories

\* Client::update of the client in slot i
ParUpdate(i, inp) ==
    /\ hist.par.updating /\ i \in hist.par.pending
    /\ clients' = [clients EXCEPT !.slots[i].val =
                      Update(clients.slots[i].val.c, Env(player_lists), inp)]
    /\ SharedBecomes(SharedAfterUpdate(Env(player_lists), clients.slots[i].val.c))
    /\ hist' = [hist EXCEPT !.par.pending = @ \ {i}]
    /\ UNCHANGED <<client, tick, wire>>

\* the phase is over: clear_removed and the end-of-tick sweep
ParEnd ==
    /\ hist.par.updating /\ hist.par.pending = {}
    /\ player_lists' = CollectGarbage(ClearRemoved(player_lists), client, clients,
                                      hist.host_handles)
    /\ worlds' = EndTickWorlds(worlds)
    /\ entities' = EndTickEntities(entities)
    /\ inventories' = EndTickInventories(inventories)
    /\ tick' = tick + 1
    /\ hist' = [hist EXCEPT !.par.updating = FALSE, !.pl_mutated = FALSE,
                            !.ins = {}, !.muts = 0]
    /\ UNCHANGED <<client, clients, wire>>

NextPar ==
    \/ \E i \in ClientSlots, id \in InventoryIds : ParSetOpenInventory(i, id)
    \/ \E i \in InventoryIds : ParModifyInventory(i)
    \/ \E u \in Uuids : ParInsert(1, u)
    \/ ParBegin
    \/ \E i \in ClientSlots, inp \in ViewInputs : ParUpdate(i, inp)
    \/ ParEnd

SpecPar == InitPar /\ [][NextPar]_vars

QueueStep ==
    ~IsTick /\ hist'.call.op \in {"queue_packet", "disconnect"}

\* C21: when the packet a setter queues does not encode, the client becomes
\* disconnected (its sink is cleared); when it encodes, a queue_packet setter
\* appends exactly that one packet to the sink; on a client that is already
\* disconnected the setters leave the connection state alone and emit
\* nothing.
C21_QueuePacket ==
    [][QueueStep =>
          /\ (client.send.some /\ ~hist'.call.encodes) => client'.send = NoSend
          /\ (client.send.some /\ hist'.call.encodes /\ hist'.call.op = "queue_packet")
                => /\ client'.send.some
                   /\ Len(client'.send.buf) = Len(client.send.buf) + 1
                   /\ SubSeq(client'.send.buf, 1, Len(client.send.buf)) = client.send.buf
          /\ IsDisconnected(client) => client'.send = client.send]_vars

\* C21 witness: a teleport whose packet did not encode, made after the
\* client's login, left the client disconnected
C21_Witness ==
    /\ hist.call = [op |-> "queue_packet", encodes |-> FALSE]
    /\ IsDisconnected(client)
    /\ client.pending_teleports = 1
    /\ ~client.created_this_tick
    /\ tick = 1

(***************************************************************************)
(* SpecEntries: the host inserts and removes entries of one player list,   *)
(* with every combination of arguments, between server ticks.              *)
(***************************************************************************)
\* the arguments of the inserts: username, textures, game mode, ping and
\* display name; against an entry made with the first, the others differ in
\* the three settable fields, in the username and in the textures
EntryArgs ==
    {<<1, 0, 0, 0, EmptyText>>, <<1, 0, 1, 1, 1>>, <<2, 0, 0, 0, EmptyText>>,
     <<1, 1, 0, 1, EmptyText>>}

InitEntries ==
    /\ client = NewClient
    /\ worlds = [w \in WorldIds |-> InitWorld(w)]
    /\ entities = [e \in EntityIds |-> NoEntity]
    /\ \E pl \in {NewPlayerList, OneEntryList} :
          player_lists = [id \in PlayerListIds |-> IF id = 1 THEN pl ELSE NoPlayerList]
    /\ inventories = [i \in InventoryIds |-> [exists |-> FALSE, modified |-> FALSE]]
    /\ tick = 0
    /\ clients = NewClients
    /\ wire = NoObservation
    /\ hist = InitHist

EntriesMayAct ==
    hist.acts < MaxActs /\ tick < MaxShortTick

\* the list becomes pl by the call op on uuid u with the arguments args,
\* which returned val
Returned(pl, op, u, args, val) ==
    /\ player_lists' = [player_lists EXCEPT ![1] = pl]
    /\ hist' = [hist EXCEPT !.acts = @ + 1,
                            !.ret = [op |-> op, u |-> u, args |-> args, val |-> val]]
    /\ wire' = NoObservation
    /\ UNCHANGED <<client, clients, worlds, entities, inventories, tick>>

EntriesInsert(u, username, textures, game_mode, ping, display_name) ==
    /\ EntriesMayAct
    /\ Returned(PlayerListInsert(player_lists[1], u, username, textures, game_mode,
                                 ping, display_name),
                "insert", u, <<username, textures, game_mode, ping, display_name>>,
                PlayerListInsertReturns(player_lists[1], u))

EntriesRemove(u) ==
    /\ EntriesMayAct
    /\ Returned(PlayerListRemove(player_lists[1], u), "remove", u, <<>>,
                PlayerListRemoveReturns(player_lists[1], u))

EntriesTick ==
    /\ tick < MaxShortTick
    /\ ServerTick(GoodInput)

NextEntries ==
    \/ \E u \in Uuids, a \in EntryArgs : EntriesInsert(u, a[1], a[2], a[3], a[4], a[5])
    \/ \E u \in Uuids : EntriesRemove(u)
    \/ EntriesTick

SpecEntries == InitEntries /\ [][NextEntries]_vars

\* PlayerList::entry(uuid) as the five values the getters of the entry give,
\* or <<>> for None
EntryOf(pl, u) ==
    IF pl.entries[u].present
    THEN <<pl.entries[u].username, pl.entries[u].textures, pl.entries[u].game_mode,
           pl.entries[u].ping, pl.entries[u].display_name>>
    ELSE <<>>

\* C22: insert returns true iff no entry with the uuid existed, and false
\* when it overwrote one; afterwards the entry of the uuid holds the given
\* username, textures, game mode, ping and display name.  remove returns true
\* iff the entry was present, and afterwards entry(uuid) is None.
C22_InsertRemoveContract ==
    [][~IsTick =>
          /\ hist'.ret.op = "insert"
                => /\ hist'.ret.val = (EntryOf(player_lists[1], hist'.ret.u) = <<>>)
                   /\ EntryOf(player_lists'[1], hist'.ret.u) = hist'.ret.args
          /\ hist'.ret.op = "remove"
                => /\ hist'.ret.val = (EntryOf(player_lists[1], hist'.ret.u) # <<>>)
                   /\ EntryOf(player_lists'[1], hist'.ret.u) = <<>>]_vars

\* C22 witness: an insert overwrote an entry that had the same username and
\* textures and was not created this tick, with another game mode, ping and
\* display name, and returned false
C22_Witness ==
    /\ hist.ret.op = "insert" /\ ~hist.ret.val
    /\ hist.ret.u = 2
    /\ hist.ret.args = <<1, 0, 1, 1, 1>>
    /\ ~player_lists[1].entries[2].created_this_tick
    /\ EntryOf(player_lists[1], 2) = <<1, 0, 1, 1, 1>>

(***************************************************************************)
(* Invariants of the client's fields.                                      *)
(***************************************************************************)
\* C23: in every reachable state of a client, view_distance and
\* old_view_distance lie in 2..=32, whatever is passed to set_view_distance.
C23_ViewDistanceRange ==
    /\ client.view_distance \in MinViewDistance .. MaxViewDistance
    /\ client.old_view_distance \in MinViewDistance .. MaxViewDistance

\* C23 witness: the host asked for a distance above the range and the update
\* took the clamped distance over as the old one
C23_Witness ==
    /\ client.view_distance = MaxViewDistance
    /\ client.old_view_distance = MaxViewDistance
    /\ wire.kind = "flushed"
    /\ Has(wire.pkts, "SetRenderDistance")

\* the window id after id in the cycle 1..=100
NextWindowId(id) ==
    (id % WindowIdCycle) + 1

\* C24 as stated: in every reachable state the window id lies in 1..=100; it
\* advances by one (100 wrapping to 1) exactly when a new screen is opened
\* and is otherwise unchanged.
C24_Original ==
    [][/\ client.window_id \in 1 .. WindowIdCycle
       /\ client'.window_id \in 1 .. WindowIdCycle
       /\ IF IsTick /\ Has(wire'.pkts, "OpenScreen")
          THEN client'.window_id = NextWindowId(client.window_id)
          ELSE client'.window_id = client.window_id]_vars

\* C24 amended: in every reachable state the window id lies in 0..=100, and
\* it is 0 only as long as the client has opened no screen; it advances by
\* one (100 wrapping to 1) in every update that emits OpenScreen, which
\* carries the new id, and changes in no other way and only in an update for
\* which a new screen was due.
C24_WindowIdCycle ==
    [][/\ client.window_id \in 0 .. WindowIdCycle
       /\ client'.window_id \in 0 .. WindowIdCycle
       /\ client.window_id # 0 => client'.window_id # 0
       /\ (IsTick /\ Has(wire'.pkts, "OpenScreen"))
             => /\ client'.window_id = NextWindowId(client.window_id)
                /\ \E i \in 1 .. Len(wire'.pkts) :
                      wire'.pkts[i] = Pkt("OpenScreen", <<client'.window_id>>)
       /\ (IsTick /\ wire'.kind = "flushed" /\ OpenDue)
             => Has(wire'.pkts, "OpenScreen")
       /\ client'.window_id # client.window_id
             => /\ IsTick /\ OpenDue
                /\ client'.window_id = NextWindowId(client.window_id)]_vars

\* C24 witness: a client that had opened 99 screens opened two more; the
\* second one has the window id 1
C24_Witness ==
    /\ client.window_id = 1
    /\ client.inv_state_id < 0
    /\ wire.kind = "flushed"
    /\ \E i \in 1 .. Len(wire.pkts) : wire.pkts[i] = Pkt("OpenScreen", <<1>>)

\* C25 as stated: in every reachable state, for every slot index, bit i of
\* modified_slots is set if and only if slots[i] differs from the value last
\* sent to the client for that slot, also after a slot is changed and changed
\* back within one tick.
C25_Original ==
    \A i \in Slots :
        (i \in client.modified_slots) <=> (client.slots[i] # hist.sent[i])

\* C25 amended: in every reachable state modified_slots has bits of the 45
\* slots only, and for every slot index, if slots[i] differs from the value
\* last sent to the client for that slot then bit i is set; a slot that is
\* changed and changed back within one tick keeps its bit.
C25_ModifiedSlotsCoverChanges ==
    /\ client.modified_slots \subseteq Slots
    /\ \A i \in Slots :
          client.slots[i] # hist.sent[i] => i \in client.modified_slots

\* C25 witness: slot 3 was sent with an item and has been emptied since, so
\* its bit is set, while slot 17 is as the client knows it
C25_Witness ==
    /\ hist.sent[3] = 1 /\ client.slots[3] = 0
    /\ 3 \in client.modified_slots
    /\ 17 \notin client.modified_slots
    /\ tick > 0

\* b is after a in the wrapping order of the state id: a few increments lead
\* from a to b
Follows(a, b) ==
    \E k \in 1 .. 2 * SlotCount : b = WrapAdd(a, k)

\* C26: the state ids carried by the successive container packets
\* (SetContainerContent and SetContainerSlot, those of a newly opened window
\* included) sent to one client are strictly increasing in emission order,
\* in the wrapping arithmetic of the state id, across the session: no two
\* such packets in a row carry the same state id.
C26_StateIdsStrictlyIncrease ==
    [][IsTick =>
          LET ids == hist.sid \o StateIdsOf(wire'.pkts)
          IN  \A k \in 1 .. Len(ids) - 1 : Follows(ids[k], ids[k + 1])]_vars

(***************************************************************************)
(* Properties of the center chunk and of the old-view pass (SpecView).     *)
(* hist.center is the client's chunk position at the end of its previous   *)
(* successful update, as a sequence of one position, or of none before the *)
(* first.                                                                  *)
(***************************************************************************)
\* the positions of the packets of type t in buf
IndexesOf(buf, t) ==
    {j \in 1 .. Len(buf) : buf[j].t = t}

\* where SetCenterChunk is in buf, it precedes every chunk-data packet
CenterPrecedesLoads(buf) ==
    \A j \in IndexesOf(buf, "SetCenterChunk"), k \in IndexesOf(buf, "ChunkData") : j < k

\* C27: in a tick whose update succeeds, SetCenterChunk(chunk_pos) is
\* emitted iff the client's chunk position differs from the chunk position
\* at the end of its previous successful update (from the chunk (0, 0) for
\* the first update, which has none before it); in every tick it is emitted
\* at most once and only if the chunk position differs so, it carries the
\* chunk position, and it precedes every chunk-data packet of that tick.
C27_CenterChunk ==
    [][IsTick =>
          LET prev  == IF hist.center = <<>> THEN <<0, 0>> ELSE hist.center[1]
              now   == ChunkPosAt(client.position)
              sets  == IndexesOf(wire'.pkts, "SetCenterChunk")
          IN  /\ wire'.kind = "flushed" => (sets # {} <=> prev # now)
              /\ sets # {} => prev # now
              /\ Cardinality(sets) <= 1
              /\ \A j \in sets : wire'.pkts[j] = Pkt("SetCenterChunk", now)
              /\ CenterPrecedesLoads(wire'.pkts)]_vars

\* C27 witness: a client that had a successful update walked to another
\* chunk; the next update set the center chunk and loaded chunks after it
C27_Witness ==
    /\ wire.kind = "flushed"
    /\ ~Has(wire.pkts, "LoginPlay")
    /\ Has(wire.pkts, "SetCenterChunk")
    /\ Has(wire.pkts, "ChunkData")
    /\ hist.center = <<ChunkPosAt(client.position)>>
    /\ ChunkPosAt(client.position) # <<0, 0>>

\* the coming update is that of a client that is not new, whose world and
\* view are unchanged, and it succeeds
StillTick ==
    /\ IsTick /\ client.send.some /\ ~client.created_this_tick
    /\ WorldBound /\ client.old_world = client.world
    /\ ChunkPosAt(client.old_position) = ChunkPosAt(client.position)
    /\ client.old_view_distance = client.view_distance
    /\ wire'.kind = "flushed"

\* the numbers of ChunkData, UnloadChunk and BlockChanges packets about the
\* position p in buf
ChunkActions(buf, p) ==
    <<CountAt(buf, "ChunkData", p), CountAt(buf, "UnloadChunk", p),
      CountAt(buf, "BlockChanges", p)>>

\* C28: in a tick where world and view are unchanged, each position of the
\* view disc that holds a chunk gets exactly one action, determined by
\* (created_this_tick, deleted): (false, false) the chunk's block-change
\* packets only (none if no block changed); (true, false) one full
\* chunk-data packet; (false, true) one UnloadChunk; (true, true) nothing.
\* A position without a chunk gets nothing.
C28_OldViewAction ==
    [][StillTick =>
          \A p \in OldDisc :
             LET ch == worlds[client.world].chunks[p]
             IN  ChunkActions(wire'.pkts, p) =
                    IF ~ch.present THEN <<0, 0, 0>>
                    ELSE IF ~ch.created_this_tick /\ ~ch.deleted
                    THEN <<0, 0, One(ch.modified)>>
                    ELSE IF ch.created_this_tick /\ ~ch.deleted THEN <<1, 0, 0>>
                    ELSE IF ~ch.created_this_tick /\ ch.deleted THEN <<0, 1, 0>>
                    ELSE <<0, 0, 0>>]_vars

\* C28 witness: a tick in which the client's world and view were unchanged
\* sent the chunk at (0, 0), which had been overwritten, in full
C28_Witness ==
    /\ wire.kind = "flushed"
    /\ ChunkActions(wire.pkts, <<0, 0>>) = <<1, 0, 0>>
    /\ \A t \in {"LoginPlay", "Respawn", "SetCenterChunk", "SetRenderDistance"} :
          ~Has(wire.pkts, t)

\* the packets of buf of type t that are about window w
WindowPackets(buf, t, w) ==
    {j \in IndexesOf(buf, t) : buf[j].a[1] = w}

\* the coming update finds slots to send and either a new client or every
\* one of the 45 slots marked and the cursor item marked
AllResendDue ==
    /\ client.modified_slots # {}
    /\ \/ client.created_this_tick
       \/ client.modified_slots = Slots /\ client.cursor_item_modified

\* C29: when modified_slots is non-zero and either the client was created
\* this tick or all 45 slots are marked modified and cursor_item_modified is
\* set, the update emits exactly one SetContainerContent for window 0 with
\* all 45 slots and the cursor item, no SetContainerSlot for a slot of
\* window 0 and no cursor packet (window -1) after it, bumps inv_state_id
\* once for it (and once more if it opens a screen), and leaves
\* cursor_item_modified clear.
C29_WholeResend ==
    [][(IsTick /\ wire'.kind = "flushed" /\ AllResendDue)
          => /\ \E j \in 1 .. Len(wire'.pkts) :
                   /\ WindowPackets(wire'.pkts, "SetContainerContent", 0) = {j}
                   /\ wire'.pkts[j].a = <<0, client.inv_state_id,
                                           client.cursor_item, client.slots>>
             /\ WindowPackets(wire'.pkts, "SetContainerSlot", 0) = {}
             /\ WindowPackets(wire'.pkts, "SetContainerSlot", -1) = {}
             /\ client'.inv_state_id
                   = WrapAdd(client.inv_state_id, 1 + One(OpenDue))
             /\ ~client'.cursor_item_modified]_vars

\* C30: replace_cursor_item with an item different from the current cursor
\* item returns (it does not panic), stores the new item, returns the old
\* one and sets cursor_item_modified, so that the next update emits the
\* cursor SetContainerSlot(window -1, slot -1).
C30_ReplaceCursorItem ==
    [][(/\ hist'.ret.op = "replace_cursor_item"
        /\ hist'.ret.args[1] # client.cursor_item)
          => /\ hist'.ret.val
             /\ hist'.ret.args = <<hist'.ret.args[1], client.cursor_item>>
             /\ client'.cursor_item = hist'.ret.args[1]
             /\ client'.cursor_item_modified]_vars

(***************************************************************************)
(* The cached update blob of a player list.                                *)
(***************************************************************************)
\* the place of a packet kind in the blob
BlobRank(t) ==
    CASE t = "RemovePlayer" -> 1
      [] t = "AddPlayer" -> 2
      [] t = "UpdateGameMode" -> 3
      [] t = "UpdateLatency" -> 4
      [] t = "UpdateDisplayName" -> 5
      [] t = "SetTabListHeaderAndFooter" -> 6
      [] OTHER -> 0

\* the records about the uuid u in the packets of kind t of buf
RecordsAbout(buf, t, u) ==
    UNION {{buf[i].a[j] : j \in {k \in 1 .. Len(buf[i].a) : buf[i].a[k][1] = u}} :
           i \in IndexesOf(buf, t)}

\* C31: every cached player-list update blob contains at most one packet of
\* each kind, in the fixed order RemovePlayer, AddPlayer, UpdateGameMode,
\* UpdateLatency, UpdateDisplayName, SetTabListHeaderAndFooter; an entry
\* created this tick appears only in AddPlayer, with its latest field values,
\* and in no update batch, and an entry not created this tick appears in
\* exactly the batches whose field was modified, with the field's value.
C31_BlobShape ==
    [][IsTick =>
          \A id \in PlayerListIds :
             player_lists[id].exists =>
                LET pl   == player_lists[id]
                    blob == player_lists'[id].cached_update_packets
                IN  /\ \A j \in 1 .. Len(blob) : BlobRank(blob[j].t) > 0
                    /\ \A j, k \in 1 .. Len(blob) :
                          j < k => BlobRank(blob[j].t) < BlobRank(blob[k].t)
                    /\ \A u \in Uuids :
                          LET e   == pl.entries[u]
                              old == e.present /\ ~e.created_this_tick
                          IN  /\ RecordsAbout(blob, "AddPlayer", u)
                                    = IF e.present /\ e.created_this_tick
                                      THEN {AddPlayerRecord(pl, u)} ELSE {}
                              /\ RecordsAbout(blob, "UpdateGameMode", u)
                                    = IF old /\ e.modified_game_mode
                                      THEN {<<u, e.game_mode>>} ELSE {}
                              /\ RecordsAbout(blob, "UpdateLatency", u)
                                    = IF old /\ e.modified_ping
                                      THEN {<<u, e.ping>>} ELSE {}
                              /\ RecordsAbout(blob, "UpdateDisplayName", u)
                                    = IF old /\ e.modified_display_name
                                      THEN {<<u, e.display_name>>} ELSE {}]_vars

\* C31 witness: the blob of list 1 adds uuid 2, which was inserted with game
\* mode 0 and then set to 1 in the same tick, and updates the game mode of
\* uuid 1
C31_Witness ==
    /\ tick > 0
    /\ RecordsAbout(player_lists[1].cached_update_packets, "AddPlayer", 2)
          = {<<2, 1, 0, 1, 0, EmptyText>>}
    /\ UuidsIn(player_lists[1].cached_update_packets, "UpdateGameMode") = {1}

(***************************************************************************)
(* SpecSwitch: two player lists; the host mutates them and binds the       *)
(* client to one, to the other or to none, before its first update or      *)
(* later.  hist.tab follows the tab list the client shows.                 *)
(***************************************************************************)
InitSwitch ==
    /\ \/ client = RespawnTo(NewClient, 1) /\ tick = 0
       \/ client = [LongSession EXCEPT !.inv_state_id = 0, !.window_id = 0] /\ tick = 1
    /\ worlds = [w \in WorldIds |-> InitWorld(w)]
    /\ entities = [e \in EntityIds |-> NoEntity]
    /\ player_lists = [id \in PlayerListIds |->
                          IF id = 1 THEN OneEntryList ELSE NewPlayerList]
    /\ inventories = [i \in InventoryIds |-> [exists |-> FALSE, modified |-> FALSE]]
    /\ clients = NewClients
    /\ wire = NoObservation
    /\ hist = [InitHist EXCEPT !.tab = <<{}>>, !.seen = <<NoList>>]

SwitchMayAct ==
    hist.acts < MaxActs /\ tick < MaxShortTick

SwitchInsert(id, u, username) ==
    /\ SwitchMayAct
    /\ Mutated(id, PlayerListInsert(player_lists[id], u, username, 0, 0, 0,
                                    EmptyText))

SwitchRemove(id, u) ==
    SwitchMayAct /\ Mutated(id, PlayerListRemove(player_lists[id], u))

SwitchClear(id) ==
    SwitchMayAct /\ Mutated(id, PlayerListClear(player_lists[id]))

SwitchSetHeader(id, header) ==
    SwitchMayAct /\ Mutated(id, SetHeader(player_lists[id], header))

SwitchSetFooter(id, footer) ==
    SwitchMayAct /\ Mutated(id, SetFooter(player_lists[id], footer))

\* the host binds the client to a player list, or to none
SwitchSetPlayerList(id) ==
    /\ SwitchMayAct
    /\ client.send.some
    /\ client' = SetPlayerList(client, id)
    /\ client' # client
    /\ Acted
    /\ UNCHANGED <<clients, worlds, entities, player_lists, inventories, tick>>

SwitchTick(inp) ==
    /\ tick < MaxShortTick
    /\ ServerTick(inp)

NextSwitch ==
    \/ \E id \in PlayerListIds, u \in Uuids, n \in Usernames : SwitchInsert(id, u, n)
    \/ \E id \in PlayerListIds, u \in Uuids : SwitchRemove(id, u)
    \/ \E id \in PlayerListIds : SwitchClear(id)
    \/ \E id \in PlayerListIds, t \in Texts : SwitchSetHeader(id, t)
    \/ \E id \in PlayerListIds, t \in Texts : SwitchSetFooter(id, t)
    \/ \E id \in {NoList} \cup PlayerListIds : SwitchSetPlayerList(id)
    \/ \E inp \in ViewInputs : SwitchTick(inp)

SpecSwitch == InitSwitch /\ [][NextSwitch]_vars

\* the coming update is that of a client that is not new, and it succeeds
SteadyTick ==
    IsTick /\ client.send.some /\ ~client.created_this_tick /\ wire'.kind = "flushed"

\* the clear packet of the list pl: one RemovePlayer naming the keys of the
\* list and its removed set
IsClearOf(pkt, pl) ==
    /\ pkt.t = "RemovePlayer"
    /\ {pkt.a[j] : j \in 1 .. Len(pkt.a)} = Keys(pl) \cup pl.removed

\* C32: for a client that is not new, in a tick where old_player_list
\* differs from player_list the player-list packets of the output are the
\* old list's clear packet (one RemovePlayer naming its current keys and its
\* removed set), if there was an old list, and then the new list's init
\* packets, if there is a new list, and nothing else (the cached update
\* bytes are not sent), and afterwards old_player_list equals player_list;
\* in a tick where they are equal and set, exactly the cached update bytes
\* are sent.
C32_Transition ==
    [][SteadyTick =>
          LET old  == client.old_player_list
              new  == client.player_list
              strm == PlayerListStream(wire'.pkts)
              init == IF new # NoList THEN WriteInitPackets(player_lists[new])
                      ELSE <<>>
          IN  /\ client'.old_player_list = client'.player_list
              /\ client'.player_list = new
              /\ (old # new /\ old # NoList)
                    => /\ Len(strm) = 1 + Len(init)
                       /\ IsClearOf(strm[1], player_lists[old])
                       /\ SubSeq(strm, 2, Len(strm)) = init
              /\ (old # new /\ old = NoList) => strm = init
              /\ (old = new /\ new # NoList)
                    => strm = player_lists'[new].cached_update_packets
              /\ (old = new /\ new = NoList) => strm = <<>>]_vars

\* C32 witness: the client went from list 1 to list 2: its update sent the
\* clear packet of list 1 and then the AddPlayer of list 2
C32_Witness ==
    /\ wire.kind = "flushed"
    /\ client.player_list = 2 /\ client.old_player_list = 2
    /\ TypesOf(PlayerListStream(wire.pkts))
          = <<"RemovePlayer", "AddPlayer", "SetTabListHeaderAndFooter">>
    /\ UuidsIn(wire.pkts, "RemovePlayer") = {2}
    /\ UuidsIn(wire.pkts, "AddPlayer") = {1}

\* C33: after every successful update the respawn bit is clear; the update
\* emits a Respawn packet (one) iff respawn() was called since the previous
\* update and the client was not created this tick; on the creation tick the
\* bit is cleared without any Respawn or SetRenderDistance packet.
\* hist.respawned tells whether respawn() was called since the previous
\* update.
C33_RespawnBit ==
    [][(IsTick /\ wire'.kind = "flushed")
          => /\ ~client'.respawn
             /\ Count(wire'.pkts, "Respawn")
                   = One(hist.respawned = <<TRUE>> /\ ~client.created_this_tick)
             /\ client.created_this_tick
                   => /\ ~Has(wire'.pkts, "Respawn")
                      /\ ~Has(wire'.pkts, "SetRenderDistance")]_vars

\* C33 witness: the host respawned a client that had logged in, and the
\* update has sent Respawn and cleared the bit
C33_Witness ==
    /\ wire.kind = "flushed"
    /\ Has(wire.pkts, "Respawn") /\ ~Has(wire.pkts, "LoginPlay")
    /\ ~client.respawn
    /\ hist.respawned = <<FALSE>>

(***************************************************************************)
(* SpecChunks: a client that has logged in to world 1; the host creates,   *)
(* overwrites and deletes chunks, moves the client, resizes its view and   *)
(* respawns it.                                                            *)
(***************************************************************************)
\* the client after its first update in world 1
LoggedIn ==
    Update(RespawnTo(NewClient, 1),
           [worlds |-> [w \in WorldIds |-> InitWorld(w)],
            entities |-> [e \in EntityIds |-> NoEntity],
            player_lists |-> [id \in PlayerListIds |-> NoPlayerList],
            inventories |-> [i \in InventoryIds |->
                                [exists |-> FALSE, modified |-> FALSE]],
            tick |-> 0],
           GoodInput).c

InitChunks ==
    /\ client = LoggedIn
    /\ worlds = [w \in WorldIds |-> InitWorld(w)]
    /\ entities = [e \in EntityIds |->
                      IF e = 2 THEN OldEntity(e, 1, 1) ELSE NoEntity]
    /\ player_lists = [id \in PlayerListIds |-> NoPlayerList]
    /\ inventories = [i \in InventoryIds |-> [exists |-> FALSE, modified |-> FALSE]]
    /\ tick = 1
    /\ clients = NewClients
    /\ wire = NoObservation
    /\ hist = [InitHist EXCEPT !.respawned = <<FALSE>>,
                               !.ents = <<[spawned |-> {2}, twice |-> FALSE]>>]

\* the host respawns the client, into another world or into its own
ChunksRespawn(w) ==
    /\ MayAct
    /\ client' = RespawnTo(client, w)
    /\ hist' = [hist EXCEPT !.acts = @ + 1, !.ret = NoReturn,
                            !.respawned = <<TRUE>>]
    /\ wire' = NoObservation
    /\ UNCHANGED <<clients, worlds, entities, player_lists, inventories, tick>>

NextChunks ==
    \/ \E w \in WorldIds : ChunksRespawn(w)
    \/ \E x \in ClientColumns : ViewMove(x)
    \/ \E d \in ViewDistances : ViewSetViewDistance(d)
    \/ \E q \in BusyCells : ViewInsertChunk(q)
    \/ \E q \in BusyCells : ViewDeleteChunk(q)
    \/ \E inp \in ViewInputs : ViewTick(inp)

SpecChunks == InitChunks /\ [][NextChunks]_vars

\* C34: the bookkeeping of loaded_chunks never fails: over any sequence of
\* ticks with chunk creation, deletion, overwrite, client movement,
\* view-distance change and world change, an UnloadChunk is written only for
\* a position the client has loaded and a chunk-data packet for a chunk not
\* created this tick only for a position it does not have loaded: neither
\* assert!(loaded_chunks.remove(..)) nor assert!(loaded_chunks.insert(..))
\* has failed.
C34_AssertionsHold ==
    ~client.assert_failed

\* the entities, other than the client's own, that reside in a cell of the
\* client's view disc in its world
EntitiesInView ==
    {e \in EntityIds :
        /\ entities[e].exists /\ ~entities[e].deleted
        /\ entities[e].uuid # client.uuid
        /\ entities[e].world = client.world
        /\ ChunkPosAt(entities[e].position)
              \in ViewSet(ChunkPosAt(client.position), client.view_distance)}

\* C35: applying each tick's spawn and RemoveEntities packets in stream order
\* to a model of the client (hist.ents), after every successful update the
\* set of entities the client has spawned equals the set of non-self
\* entities residing in cells of its current view disc in its current world,
\* and no entity was spawned twice without an intervening removal.
C35_EntityView ==
    wire.kind = "flushed"
       => /\ hist.ents[1].spawned = EntitiesInView
          /\ ~hist.ents[1].twice

\* C35 witness: in a tick in which the client walked, an entity was spawned
\* and entities were removed, and the client has just those in its view
C35_Witness ==
    /\ wire.kind = "flushed"
    /\ Has(wire.pkts, "SpawnEntity") /\ Has(wire.pkts, "RemoveEntities")
    /\ Has(wire.pkts, "SetCenterChunk") /\ ~Has(wire.pkts, "LoginPlay")
    /\ hist.ents[1].spawned = EntitiesInView

\* the uuids of the player list the client is attached to
AttachedKeys ==
    IF client.player_list = NoList THEN {}
    ELSE Keys(player_lists[client.player_list])

\* C36: applying each tick's AddPlayer and RemovePlayer packets in stream
\* order to a model of the client (hist.tab), after every successful update
\* the set of uuids the client shows equals the key set of the player list
\* it is attached to (empty when none), for every sequence of entry
\* insert/remove/overwrite/clear and list switches, and for clients that
\* had the list set on their creation tick.
C36_TabList ==
    wire.kind = "flushed" => hist.tab[1] = AttachedKeys

\* C37: a player list's init packets are written to a client exactly once
\* per attachment: in the first update in which the client observes the
\* list, and in no later tick while player_list stays unchanged, when the
\* client is sent the cached update bytes and nothing else of the list; in
\* particular a client whose list was set on its creation tick receives the
\* init packets at that tick only.  hist.seen is the list the client was
\* attached to in its last successful update.
C37_InitOnce ==
    [][(IsTick /\ wire'.kind = "flushed" /\ client.player_list # NoList)
          => LET l    == client.player_list
                 strm == PlayerListStream(wire'.pkts)
                 init == WriteInitPackets(player_lists[l])
             IN  IF hist.seen[1] = l
                 THEN strm = player_lists'[l].cached_update_packets
                 ELSE /\ Len(strm) >= Len(init)
                      /\ SubSeq(strm, Len(strm) - Len(init) + 1, Len(strm)) = init]_vars

\* the coming update writes the init packets of the client's player list:
\* the client is new, or its list changed
AttachTick ==
    /\ IsTick /\ wire'.kind = "flushed"
    /\ client.player_list # NoList
    /\ client.created_this_tick \/ client.old_player_list # client.player_list

\* C38: a player list's init packets include a SetTabListHeaderAndFooter
\* carrying the current header and footer whenever the header or the footer
\* is non-empty, so that a client attaching to the list sees the header and
\* footer that the clients attached before it were sent.
C38_InitHeaderFooter ==
    [][AttachTick =>
          LET pl == player_lists[client.player_list]
          IN  (pl.header # EmptyText \/ pl.footer # EmptyText)
                 => HasAt(wire'.pkts, "SetTabListHeaderAndFooter",
                          <<pl.header, pl.footer>>)]_vars

\* C39: every tick whose output contains a Respawn packet also contains,
\* after it, a chunk-data packet for every non-deleted chunk in the client's
\* new view disc and a spawn for every non-self entity in it, also when
\* respawn() was called with the world the client is already in.
C39_RespawnReloads ==
    [][(IsTick /\ wire'.kind = "flushed")
          => \A r \in IndexesOf(wire'.pkts, "Respawn") :
                /\ \A q \in NewDisc :
                      (/\ worlds[client.world].chunks[q].present
                       /\ ~worlds[client.world].chunks[q].deleted)
                         => \E j \in IndexesOf(wire'.pkts, "ChunkData") :
                               j > r /\ wire'.pkts[j].a = q
                /\ \A e \in EntitiesInView :
                      \E j \in IndexesOf(wire'.pkts, "SpawnEntity") :
                         j > r /\ wire'.pkts[j].a = <<e>>]_vars

\* C40: LoginPlay is emitted at most once per client over its whole session,
\* and only in the client's first update() call: created_this_tick is true
\* from construction until the end of the first update() call and false
\* forever after, whether that update succeeded, failed, or found the client
\* already disconnected.  The client is constructed at tick 0 and every tick
\* calls update() once, so the first call is that of tick 0.
C40_LoginOnce ==
    [][/\ client.created_this_tick = (tick = 0)
       /\ client'.created_this_tick = (tick' = 0)
       /\ IsTick => Count(wire'.pkts, "LoginPlay") <= One(tick = 0)
       /\ (IsTick /\ tick = 0 /\ wire'.kind = "flushed")
             => Count(wire'.pkts, "LoginPlay") = 1]_vars

\* C40 witness: the first update found the client already disconnected, and
\* a later update has run: the client is not new and got no LoginPlay
C40_Witness ==
    /\ tick = 2
    /\ hist.dead # {} \/ ~client.send.some
    /\ wire.kind = "absent"
    /\ ~client.created_this_tick
    /\ client.world = NULL

====
